---- MODULE Spec2Model ----
(***************************************************************************)
(* Model of Neuraxle's AutoML metadata tree (neuraxle/metaopt/data/        *)
(* vanilla.py), its two repositories (VanillaHyperparamsRepository and     *)
(* HyperparamsOnDiskRepository of json_repo.py) and the controller loop    *)
(* (neuraxle/metaopt/auto_ml.py).                                          *)
(*                                                                         *)
(* Encoding.  A scoped location attribute is a str or an int in the code.  *)
(* Here every attribute is an integer: the ints of the code are the        *)
(* naturals below DEFAULT_PROJECT, the strs are the integers from          *)
(* DEFAULT_PROJECT upwards (IsStr), and Python's None is the value None.   *)
(* The one negative int that is used, -1, is written MINUS_ONE (IntOf      *)
(* gives the number it stands for).                                        *)
(* A dataclass instance is a record [type, id, hp, own, sub]: type is the  *)
(* class name, id the id attribute, hp the `hyperparams` field of the      *)
(* trial mixin, own the remaining own fields taken together, and sub the   *)
(* sublocation, a sequence of entries [k |-> key, v |-> child] (for a list *)
(* sublocation the keys are the indices 0..len-1 in order).                *)
(***************************************************************************)
EXTENDS Integers, Sequences, FiniteSets, TLC

\* ------------------------------------------------------------------ bounds
MaxLen == 2
MaxTrials == 3
MaxSplits == 2
MaxOwn == 1
MaxIdx == 1
\* the most child directories a list node has on disk in SortSpec
MaxKids == 11
\* the most log files one context opens in CtxSpec
MaxOpened == 2
MaxNodes == 4
\* the largest worker count asked for, and the most cpus of the machine
MaxEpochs == 3
MaxJobs == 2
MaxCpu == 2
MaxScore == 2
SaveDepth == 4

\* --------------------------------------------------------------- constants
None == -1
DEFAULT_PROJECT == 100
DEFAULT_CLIENT == 101
MAIN_METRIC == 102
OTHER_NAME == DEFAULT_PROJECT + 3

IsStr(x) == x >= DEFAULT_PROJECT
IsInt(x) == x >= 0 /\ x < DEFAULT_PROJECT

\* the int -1 of the code
MINUS_ONE == DEFAULT_PROJECT - 1

\* the number an int attribute stands for
IntOf(x) == IF x = MINUS_ONE THEN 0 - 1 ELSE x

\* dataclass_2_id_attr.keys(), in order
dataclass_2_id_attr ==
  << "ProjectDataclass", "ClientDataclass", "RoundDataclass",
     "TrialDataclass", "TrialSplitDataclass", "MetricResultsDataclass" >>

\* dataclass_2_subloc_attr.keys(), in order
dataclass_2_subloc_attr == << "RootDataclass" >> \o dataclass_2_id_attr

\* list(d.keys()).index(key), 0-based as in Python
IndexIn(seq, key) == (CHOOSE i \in 1..Len(seq) : seq[i] = key) - 1

dataclass_2_subdataclass(T) ==
  IF T = "MetricResultsDataclass" THEN "NoneType"
  ELSE dataclass_2_id_attr[IndexIn(dataclass_2_subloc_attr, T) + 1]

DataclassHasOrderedDictMixin(T) ==
  T \in {"RootDataclass", "ProjectDataclass", "TrialSplitDataclass"}

DataclassHasListMixin(T) ==
  T \in {"ClientDataclass", "RoundDataclass", "TrialDataclass", "MetricResultsDataclass"}

BaseTrialDataclassMixin(T) == T \in {"TrialDataclass", "TrialSplitDataclass"}

\* outcomes of a call: a returned value or a raised exception
Ok(v) == [err |-> "ok", val |-> v]
Raise(e, v) == [err |-> e, val |-> v]

\* ---------------------------------------------------------- ScopedLocation
\* ScopedLocation(*args): the six attributes, None where no argument is given
ScopedLocation(args) == [k \in 1..6 |-> IF k <= Len(args) THEN args[k] ELSE None]

RECURSIVE as_list_from(_, _)
as_list_from(loc, k) ==
  IF k > 6 \/ loc[k] = None THEN << >>
  ELSE << loc[k] >> \o as_list_from(loc, k + 1)

\* the attributes up to the first None
as_list(loc) == as_list_from(loc, 1)

loc_len(loc) == Len(as_list(loc))

\* ScopedLocation.__getitem__ with a dataclass type as key
loc_getitem(loc, T) ==
  IF T = "RootDataclass" THEN None
  ELSE loc[IndexIn(dataclass_2_id_attr, T) + 1]

Take(seq, n) == SubSeq(seq, 1, IF n < Len(seq) THEN n ELSE Len(seq))

\* a slice that stops before the coordinate of T
loc_slice_before(loc, T) ==
  IF T = "RootDataclass" THEN ScopedLocation(<< >>)
  ELSE ScopedLocation(Take(as_list(loc), IndexIn(dataclass_2_id_attr, T)))

\* ScopedLocation.__getitem__ with slice(None, T)
loc_slice(loc, T) ==
  IF T = "RootDataclass" THEN ScopedLocation(<< >>)
  ELSE ScopedLocation(Take(as_list(loc), IndexIn(dataclass_2_id_attr, T) + 1))

\* ScopedLocation.__getitem__ with slice(None, n), n an int
loc_slice_idx(loc, n) ==
  ScopedLocation(Take(as_list(loc), IF n >= 0 THEN n ELSE loc_len(loc) + n))

loc_copy(loc) == ScopedLocation(as_list(loc))

\* a with_id that gives back the location it was called on
with_id_unchanged(loc, id) == Ok(loc)

\* with_id: one more positional argument; a seventh is a TypeError
with_id(loc, id) ==
  IF loc_len(loc) >= 6 THEN Raise("TypeError", loc)
  ELSE Ok(ScopedLocation(Append(as_list(loc), id)))

\* a with_dc that appends the node's id whatever the node's class is
with_dc_appending(loc, dc) ==
  IF dc.type = "RootDataclass" THEN Ok(ScopedLocation(<< >>))
  ELSE IF Len(as_list(loc)) >= 6 THEN Raise("TypeError", loc)
  ELSE Ok(ScopedLocation(Append(as_list(loc), dc.id)))

\* a with_dc that sets the attribute of the node's class wherever it is
with_dc_unchecked(loc, dc) ==
  IF dc.type = "RootDataclass" THEN Ok(ScopedLocation(<< >>))
  ELSE Ok([loc_copy(loc) EXCEPT ![IndexIn(dataclass_2_id_attr, dc.type) + 1] = dc.id])

\* __setitem__ on a copy: the key's type must be the next one to define;
\* otherwise the message of the ValueError subscripts the keys view of an
\* OrderedDict, which is a TypeError
with_dc(loc, dc) ==
  IF dc.type = "RootDataclass" THEN Ok(ScopedLocation(<< >>))
  ELSE LET c == loc_copy(loc)
           key_idx == IndexIn(dataclass_2_id_attr, dc.type)
       IN IF loc_len(c) # key_idx THEN Raise("TypeError", loc)
          ELSE Ok([c EXCEPT ![key_idx + 1] = dc.id])

\* index (1-based) of the last attribute that is not None, 0 if there is none
LastSet(loc) ==
  IF \E k \in 1..6 : loc[k] # None
  THEN CHOOSE k \in 1..6 : loc[k] # None /\ \A j \in (k+1)..6 : loc[j] = None
  ELSE 0

\* pop: the location after the call (the last not-None attribute reset)
pop(loc) == IF LastSet(loc) = 0 THEN loc ELSE [loc EXCEPT ![LastSet(loc)] = None]

popped(loc) == ScopedLocation(Take(as_list(loc), loc_len(loc) - 1))

\* --------------------------------------------------------------- dataclasses
NoneDC == [type |-> "NoneType", id |-> None, hp |-> None, own |-> None, sub |-> << >>]

Entry(k, v) == [k |-> k, v |-> v]

ClientDataclass(client_name, own, rounds) ==
  [type |-> "ClientDataclass", id |-> client_name, hp |-> None, own |-> own, sub |-> rounds]

\* clients defaults to {DEFAULT_CLIENT: ClientDataclass()} (field default_factory)
DefaultClients == << Entry(DEFAULT_CLIENT, ClientDataclass(DEFAULT_CLIENT, 0, << >>)) >>

ProjectDataclass(project_name, clients) ==
  [type |-> "ProjectDataclass", id |-> project_name, hp |-> None, own |-> 0, sub |-> clients]

DefaultProjects == << Entry(DEFAULT_PROJECT, ProjectDataclass(DEFAULT_PROJECT, DefaultClients)) >>

RootDataclass(projects) ==
  [type |-> "RootDataclass", id |-> None, hp |-> None, own |-> 0, sub |-> projects]

RoundDataclass(round_number, trials) ==
  [type |-> "RoundDataclass", id |-> round_number, hp |-> None, own |-> 0, sub |-> trials]

TrialDataclass(hyperparams, trial_number, validation_splits) ==
  [type |-> "TrialDataclass", id |-> trial_number, hp |-> hyperparams, own |-> 0,
   sub |-> validation_splits]

TrialSplitDataclass(hyperparams, split_number, metric_results) ==
  [type |-> "TrialSplitDataclass", id |-> split_number, hp |-> hyperparams, own |-> 0,
   sub |-> metric_results]

MetricResultsDataclass(metric_name, own, validation_values) ==
  [type |-> "MetricResultsDataclass", id |-> metric_name, hp |-> None, own |-> own,
   sub |-> validation_values]

\* dataklass(x): the class called with one positional argument, which goes to
\* the first field of the generated __init__; for the two classes that inherit
\* BaseTrialDataclassMixin the first field is `hyperparams`, not the id.
Construct1(T, x) ==
  CASE T = "ProjectDataclass" -> ProjectDataclass(x, DefaultClients)
    [] T = "ClientDataclass" -> ClientDataclass(x, 0, << >>)
    [] T = "RoundDataclass" -> RoundDataclass(x, << >>)
    [] T = "TrialDataclass" -> TrialDataclass(x, 0, << >>)
    [] T = "TrialSplitDataclass" -> TrialSplitDataclass(x, 0, << >>)
    [] OTHER -> MetricResultsDataclass(x, 0, << >>)

\* new_dataclass_from_id; on an empty location _list[-1] is an IndexError
new_dataclass_from_id(loc) ==
  LET _list == as_list(loc)
  IN IF _list = << >> THEN Raise("IndexError", NoneDC)
     ELSE Ok(Construct1(dataclass_2_id_attr[Len(_list)], _list[Len(_list)]))

get_sublocation_keys(dc) == [i \in 1..Len(dc.sub) |-> dc.sub[i].k]

HasKey(dc, key) == \E i \in 1..Len(dc.sub) : dc.sub[i].k = key

KeyPos(dc, key) == CHOOSE i \in 1..Len(dc.sub) : dc.sub[i].k = key

\* _invariant of the OrderedDict mixin: str keys, values None or of the sub type
DictInvariant(dc) ==
  /\ \A i \in 1..Len(dc.sub) : IsStr(dc.sub[i].k)
  /\ \A i \in 1..Len(dc.sub) :
       dc.sub[i].v.type \in {"NoneType", dataclass_2_subdataclass(dc.type)}

\* _invariant: the list mixin only checks that the sublocation is a list
_invariant(dc) == IF DataclassHasOrderedDictMixin(dc.type) THEN DictInvariant(dc) ELSE TRUE

\* set_sublocation: setattr, then _invariant
set_sublocation(dc, sublocation) ==
  LET d == [dc EXCEPT !.sub = sublocation]
  IN IF _invariant(d) THEN Ok(d) ELSE Raise("ValueError", d)

\* OrderedDict __setitem__: in place for a known key, at the end for a new one
DictPut(sub, key, v) ==
  IF \E i \in 1..Len(sub) : sub[i].k = key
  THEN [i \in 1..Len(sub) |-> IF sub[i].k = key THEN Entry(key, v) ELSE sub[i]]
  ELSE Append(sub, Entry(key, v))

\* DataclassHasOrderedDictMixin.store: the assignment, then _invariant
DictStore(self, dc) ==
  LET d == [self EXCEPT !.sub = DictPut(self.sub, dc.id, dc)]
  IN IF _invariant(d) THEN Ok(d) ELSE Raise("ValueError", d)

get_next_i(self) == Len(self.sub)

\* the store of a list sublocation without the check of the next index
ListStore_unchecked(self, dc) ==
  IF dc.id = None \/ IsStr(dc.id) THEN Raise("TypeError", self)
  ELSE IF dc.id < Len(self.sub)
       THEN Ok([self EXCEPT !.sub = [i \in 1..Len(self.sub) |->
                                      IF i = dc.id + 1 THEN Entry(dc.id, dc) ELSE self.sub[i]]])
       ELSE Ok([self EXCEPT !.sub = Append(self.sub, Entry(Len(self.sub), dc))])

\* a list store that puts a node with an index beyond the end at the end
ListStore_appending(self, dc) ==
  IF dc.id = None \/ IsStr(dc.id) THEN Raise("TypeError", self)
  ELSE IF IntOf(dc.id) >= Len(self.sub)
       THEN Ok([self EXCEPT !.sub = Append(self.sub, Entry(Len(self.sub), dc))])
       ELSE Ok([self EXCEPT !.sub = [i \in 1..Len(self.sub) |->
                                      IF i = dc.id + 1 THEN Entry(dc.id, dc) ELSE self.sub[i]]])

\* DataclassHasListMixin.store; comparing None or a str with an int by < is a
\* TypeError; a negative id is below the next index, and the list assignment
\* counts it from the end of the list (IndexError when it is before the start)
ListStore(self, dc) ==
  LET _id == IntOf(dc.id)
      n == get_next_i(self)
      at == IF _id < 0 THEN n + _id ELSE _id
  IN IF dc.id = None \/ IsStr(dc.id) THEN Raise("TypeError", self)
     ELSE IF _id = n THEN Ok([self EXCEPT !.sub = Append(self.sub, Entry(n, dc))])
     ELSE IF _id < n
          THEN IF at < 0 THEN Raise("IndexError", self)
               ELSE Ok([self EXCEPT !.sub = [i \in 1..n |-> IF i = at + 1 THEN Entry(at, dc)
                                                             ELSE self.sub[i]]])
          ELSE Raise("ValueError", self)

\* store(dc): .val is the node after the call, also when the call raised
store(self, dc) ==
  IF dc.type = "NoneType" THEN Raise("AttributeError", self)
  ELSE IF DataclassHasOrderedDictMixin(self.type) THEN DictStore(self, dc)
  ELSE ListStore(self, dc)

\* a shallow() that keeps the children
shallow_keeping(dc) == Ok(dc)

\* shallow(): a copy with every child slot replaced by None, keys kept, given
\* to set_sublocation
shallow(dc) == set_sublocation(dc, [i \in 1..Len(dc.sub) |-> Entry(dc.sub[i].k, NoneDC)])

\* raise KeyError(f"Item at loc={loc} is not in {self.shallow()}."): the
\* message calls shallow(), and what shallow() raises comes out instead
KeyErrorOf(self) == IF shallow(self).err = "ok" THEN "KeyError" ELSE shallow(self).err

\* BaseDataclass.__getitem__(loc); None[loc] is a TypeError
RECURSIVE dc_getitem(_, _)
dc_getitem(self, loc) ==
  IF self.type = "NoneType" THEN Raise("TypeError", NoneDC)
  ELSE LET subdataklass == dataclass_2_subdataclass(self.type)
       IN IF subdataklass = "NoneType" THEN Ok(self)
          ELSE LET located_sub_attr == loc_getitem(loc, subdataklass)
               IN IF located_sub_attr = None THEN Ok(self)
                  ELSE IF ~HasKey(self, located_sub_attr)
                       THEN Raise(KeyErrorOf(self), NoneDC)
                  ELSE dc_getitem(self.sub[KeyPos(self, located_sub_attr)].v, loc)

\* self.root[scope].store(dc): the located node is mutated inside the tree;
\* .val is the tree after the call, also when the call raised
RECURSIVE store_at(_, _, _)
store_at(self, loc, dc) ==
  IF self.type = "NoneType" THEN Raise("TypeError", self)
  ELSE LET subdataklass == dataclass_2_subdataclass(self.type)
       IN IF subdataklass = "NoneType" THEN store(self, dc)
          ELSE LET located_sub_attr == loc_getitem(loc, subdataklass)
               IN IF located_sub_attr = None THEN store(self, dc)
                  ELSE IF ~HasKey(self, located_sub_attr)
                       THEN Raise(KeyErrorOf(self), self)
                  ELSE LET p == KeyPos(self, located_sub_attr)
                           r == store_at(self.sub[p].v, loc, dc)
                       IN [err |-> r.err,
                           val |-> [self EXCEPT !.sub[p].v = r.val]]

\* ------------------------------------------------ VanillaHyperparamsRepository
\* load(scope, deep): only KeyError is caught
vanilla_load(root, scope, deep) ==
  LET r == dc_getitem(root, scope)
  IN IF r.err = "ok" THEN (IF deep THEN r ELSE shallow(r.val))
     ELSE IF r.err = "KeyError" THEN new_dataclass_from_id(scope)
     ELSE r

\* a save that does not take over the stored sublocation
Reattach_skipped(root, dc, scope) == Ok(dc)

\* a save that takes over the keys of the stored sublocation, not its nodes
Reattach_shallow(root, dc, scope) ==
  IF dc.type = "RootDataclass" THEN set_sublocation(dc, shallow(root).val.sub)
  ELSE LET w == with_dc(scope, dc)
       IN IF w.err # "ok" THEN Raise(w.err, dc)
          ELSE LET prev_dc == vanilla_load(root, w.val, FALSE)
               IN IF prev_dc.err # "ok" THEN Raise(prev_dc.err, dc)
                  ELSE set_sublocation(dc, prev_dc.val.sub)

\* the part of save under `if not deep`: the node with the stored sublocation
Reattach(root, dc, scope) ==
  IF dc.type = "RootDataclass" THEN set_sublocation(dc, root.sub)
  ELSE LET w == with_dc(scope, dc)
       IN IF w.err # "ok" THEN Raise(w.err, dc)
          ELSE LET prev_dc == vanilla_load(root, w.val, TRUE)
               IN IF prev_dc.err # "ok" THEN Raise(prev_dc.err, dc)
                  ELSE set_sublocation(dc, prev_dc.val.sub)

\* save(_dataclass, scope, deep): .val is self.root after the call
vanilla_save(root, _dataclass, scope0, deep) ==
  LET T == _dataclass.type
      _id_from_scope == loc_getitem(scope0, T)
      scope1 == loc_slice(scope0, T)
  IN IF _id_from_scope # None /\ _id_from_scope # _dataclass.id
     THEN Raise("ValueError", root)
     ELSE IF _id_from_scope = None /\ loc_len(scope1) # IndexIn(dataclass_2_subloc_attr, T)
     THEN Raise("ValueError", root)
     ELSE LET scope == IF _id_from_scope # None THEN pop(scope1) ELSE scope1
              dc == IF deep THEN Ok(_dataclass) ELSE Reattach(root, _dataclass, scope)
          IN IF dc.err # "ok" THEN Raise(dc.err, root)
             ELSE IF T = "RootDataclass" THEN Ok(dc.val)
             ELSE store_at(root, scope, dc.val)

\* ------------------------------------------------- HyperparamsOnDiskRepository
(***************************************************************************)
(* The cache folder is a record [dirs, meta]: dirs is the set of           *)
(* directories below it (a directory is the sequence of its path segments, *)
(* a segment the sequence of its characters), meta maps each directory     *)
(* that holds a metadata.json to the file's content.  A log.txt never      *)
(* changes what load and save do (its name does not start with the         *)
(* delimiter), so only the directory that holds it is kept.                *)
(***************************************************************************)
ON_DISK_DELIM == 95
CHAR_ZERO == 48
CHAR_MINUS == 45

\* str(x): the decimal digits of an int; a str is kept as one symbol
RECURSIVE Str(_)
Str(x) ==
  IF IsStr(x) THEN << x >>
  ELSE IF x = MINUS_ONE THEN << CHAR_MINUS, CHAR_ZERO + 1 >>
  ELSE IF x < 10 THEN << CHAR_ZERO + x >>
  ELSE Str(x \div 10) \o << CHAR_ZERO + (x % 10) >>

IsDigits(s) == Len(s) > 0 /\ \A i \in 1..Len(s) : s[i] >= CHAR_ZERO /\ s[i] < CHAR_ZERO + 10

\* int(s) for a string of digits
RECURSIVE ParseInt(_)
ParseInt(s) ==
  IF Len(s) = 1 THEN s[1] - CHAR_ZERO
  ELSE 10 * ParseInt(SubSeq(s, 1, Len(s) - 1)) + (s[Len(s)] - CHAR_ZERO)

\* a str read back from a directory name
ParseStr(s) == s[1]

\* Python's order on str
StrLess(a, b) ==
  \E k \in 1..(Len(b)) :
     /\ k <= Len(a) + 1
     /\ \A j \in 1..(k - 1) : a[j] = b[j]
     /\ (k = Len(a) + 1 \/ a[k] < b[k])

RECURSIVE Sorted(_)
Sorted(S) ==
  IF S = {} THEN << >>
  ELSE LET m == CHOOSE x \in S : \A y \in S : x = y \/ StrLess(x, y)
       IN << m >> \o Sorted(S \ {m})

\* a folder whose segments are the attributes without the delimiter
get_folder_undelimited(scope) ==
  LET l == as_list(scope)
  IN [i \in 1..Len(l) |-> Str(l[i])]

\* get_folder_at_scope: one segment, the delimiter and str(attr), per attribute
get_folder_at_scope(scope) ==
  LET l == as_list(scope)
  IN [i \in 1..Len(l) |-> << ON_DISK_DELIM >> \o Str(l[i])]

\* os.path.join(folder, name) of a folder and a file name: the file name and
\* the folder it is in
PathJoin(folder, name) == [dir |-> folder, name |-> name]

\* get_scoped_logger_path
get_scoped_logger_path(scope) == PathJoin(get_folder_at_scope(scope), "log.txt")

Prefixes(path) == {SubSeq(path, 1, n) : n \in 0..Len(path)}

\* os.listdir(folder), the sub-directories only (the two files have fixed names)
ListDirs(disk, folder) ==
  {p[Len(p)] : p \in {q \in disk.dirs : Len(q) = Len(folder) + 1
                                         /\ SubSeq(q, 1, Len(folder)) = folder}}

\* ScopedLocation.at_dc: the location truncated at the dataclass's level
at_dc(scope, dc) == loc_slice(scope, dc.type)

\* a copy with the sublocation emptied
empty(dc) == [dc EXCEPT !.sub = << >>]

has_sublocation_dataclasses(dc) == dc.type # "MetricResultsDataclass"

\* the record written to metadata.json and the node read back from it
to_json(dc) == [type |-> dc.type, id |-> dc.id, hp |-> dc.hp, own |-> dc.own]

from_json(rec) == [type |-> rec.type, id |-> rec.id, hp |-> rec.hp, own |-> rec.own,
                   sub |-> << >>]

EmptyFile == [kind |-> "empty", rec |-> to_json(NoneDC)]

JsonFile(dc) == [kind |-> "json", rec |-> to_json(empty(dc))]

WriteFile(meta, folder, content) ==
  [p \in DOMAIN meta \cup {folder} |-> IF p = folder THEN content ELSE meta[p]]

_patch_scope_for_dataclass(dc, scope) ==
  IF dc.type # "NoneType" /\ dc.id # None
  THEN [at_dc(scope, dc) EXCEPT ![IndexIn(dataclass_2_id_attr, dc.type) + 1] = dc.id]
  ELSE scope

\* a record file that is put into the cache folder itself, whatever the scope
_get_dataclass_filename_path_flat(dc, scope0) ==
  [scope |-> ScopedLocation(<< >>), save_folder |-> << >>,
   save_file |-> PathJoin(<< >>, "metadata.json")]

\* _get_dataclass_filename_path: the patched scope, its folder and the record
\* file in it
_get_dataclass_filename_path(dc, scope0) ==
  LET scope == _patch_scope_for_dataclass(dc, scope0)
  IN [scope |-> scope,
      save_folder |-> get_folder_at_scope(scope),
      save_file |-> PathJoin(get_folder_at_scope(scope), "metadata.json")]

\* _save_dc: makedirs, open(save_file, 'w'), json.dump(to_json(dc.empty())),
\* then the children in order when deep; .val is the cache folder afterwards
RECURSIVE _save_dc(_, _, _, _)
RECURSIVE SaveChildren(_, _, _, _)
_save_dc(disk, dc, scope0, deep) ==
  LET scope == _patch_scope_for_dataclass(dc, scope0)
      save_folder == get_folder_at_scope(scope)
      opened == [disk EXCEPT !.dirs = @ \cup Prefixes(save_folder),
                             !.meta = WriteFile(@, save_folder, EmptyFile)]
  IN IF dc.type = "NoneType" THEN Raise("AttributeError", opened)
     ELSE LET written == [opened EXCEPT !.meta = WriteFile(@, save_folder, JsonFile(dc))]
          IN IF deep /\ has_sublocation_dataclasses(dc)
             THEN SaveChildren(written, dc.sub, scope, 1)
             ELSE Ok(written)

SaveChildren(disk, sub, scope, i) ==
  IF i > Len(sub) THEN Ok(disk)
  ELSE LET r == _save_dc(disk, sub[i].v, scope, TRUE)
       IN IF r.err # "ok" THEN r ELSE SaveChildren(r.val, sub, scope, i + 1)

disk_save(disk, dc, scope, deep) == _save_dc(disk, dc, scope, deep)

\* set_sublocation_keys: a placeholder per key; a list's keys must be 0..n-1
set_sublocation_keys(dc, keys) ==
  IF DataclassHasListMixin(dc.type) /\ keys # [i \in 1..Len(keys) |-> i - 1]
  THEN Raise("AssertionError", dc)
  ELSE set_sublocation(dc, [i \in 1..Len(keys) |-> Entry(keys[i], NoneDC)])

\* _load_dc_sublocation_keys: listdir, the delimiter stripped, sorted as str,
\* then int() of each for a list sublocation
_load_dc_sublocation_keys(disk, dc, scope) ==
  LET dc_folder == get_folder_at_scope(scope)
      names == {s \in ListDirs(disk, dc_folder) : s[1] = ON_DISK_DELIM}
      sublocs == Sorted({SubSeq(s, 2, Len(s)) : s \in names})
  IN IF DataclassHasListMixin(dc.type)
     THEN IF \E i \in 1..Len(sublocs) : ~IsDigits(sublocs[i])
          THEN Raise("ValueError", dc)
          ELSE set_sublocation_keys(dc, [i \in 1..Len(sublocs) |-> ParseInt(sublocs[i])])
     ELSE set_sublocation_keys(dc, [i \in 1..Len(sublocs) |-> ParseStr(sublocs[i])])

\* a _load_json_file that answers a file that does not parse as an absent one
_load_json_file_as_absent(disk, load_file_folder) ==
  IF load_file_folder \notin DOMAIN disk.meta THEN Raise("KeyError", EmptyFile.rec)
  ELSE IF disk.meta[load_file_folder].kind # "json" THEN Raise("KeyError", EmptyFile.rec)
  ELSE Ok(disk.meta[load_file_folder].rec)

\* _load_json_file: KeyError when the file is absent, ValueError when it
\* does not parse
_load_json_file(disk, load_file_folder) ==
  IF load_file_folder \notin DOMAIN disk.meta THEN Raise("KeyError", EmptyFile.rec)
  ELSE IF disk.meta[load_file_folder].kind # "json" THEN Raise("ValueError", EmptyFile.rec)
  ELSE Ok(disk.meta[load_file_folder].rec)

RECURSIVE _load_dc(_, _, _)
RECURSIVE LoadChildren(_, _, _, _, _)
_load_dc(disk, scope, deep) ==
  LET _json_loaded == _load_json_file(disk, get_folder_at_scope(scope))
  IN IF _json_loaded.err # "ok" THEN Raise(_json_loaded.err, NoneDC)
     ELSE LET dc == from_json(_json_loaded.val)
          IN IF ~has_sublocation_dataclasses(dc) THEN Ok(dc)
             ELSE LET k == _load_dc_sublocation_keys(disk, dc, scope)
                  IN IF k.err # "ok" \/ ~deep THEN k
                     ELSE LoadChildren(disk, k.val, scope, get_sublocation_keys(k.val), 1)

\* for sub_dc_id in keys: store(_load_dc(scope.with_id(sub_dc_id)))
LoadChildren(disk, dc, scope, keys, i) ==
  IF i > Len(keys) THEN Ok(dc)
  ELSE LET w == with_id(scope, keys[i])
       IN IF w.err # "ok" THEN Raise(w.err, dc)
          ELSE LET sub_dc == _load_dc(disk, w.val, TRUE)
               IN IF sub_dc.err # "ok" THEN Raise(sub_dc.err, dc)
                  ELSE LET s == store(dc, sub_dc.val)
                       IN IF s.err # "ok" THEN s
                          ELSE LoadChildren(disk, s.val, scope, keys, i + 1)

\* load(scope, deep): a KeyError of _load_dc, at any depth, is answered by
\* scope.new_dataclass_from_id()
disk_load(disk, scope, deep) ==
  LET loaded == _load_dc(disk, scope, deep)
  IN IF loaded.err = "KeyError" THEN new_dataclass_from_id(scope) ELSE loaded

\* add_logging_handler: makedirs of the folder of the scope's log.txt
add_logging_handler(disk, scope) ==
  LET folder == get_folder_at_scope(scope)
  IN [disk EXCEPT !.dirs = @ \cup Prefixes(folder)]

EmptyDisk == [dirs |-> {<< >>}, meta |-> [p \in {} |-> EmptyFile]]

\* HyperparamsOnDiskRepository.__init__: a default root saved deep
disk_init(disk) == _save_dc(disk, RootDataclass(DefaultProjects), ScopedLocation(<< >>), TRUE).val

\* ------------------------------------------------------------- the repositories
(***************************************************************************)
(* kind is the repository class the program constructed; root is the tree  *)
(* of a VanillaHyperparamsRepository, disk the cache folder of a           *)
(* HyperparamsOnDiskRepository; last is the call the caller has just made  *)
(* on the repository, with its arguments, its outcome and the node it      *)
(* returned, until the caller lets go of the result.                       *)
(***************************************************************************)
VARIABLES kind, root, disk, last

(***************************************************************************)
(* node is a dataclass instance on which store is called directly and call *)
(* the last such call: the child given, the outcome and the node before.   *)
(***************************************************************************)
VARIABLES node, call

(***************************************************************************)
(* The controller loop: cfg is the configuration of the loop object, pc    *)
(* the position of its caller, round the Round scope opened by run, gen    *)
(* the state of the generator returned by loop, trials the trials of the   *)
(* round in order, exc the exception in flight and ret the value returned. *)
(***************************************************************************)
VARIABLES cfg, pc, round, gen, trials, exc, ret

(***************************************************************************)
(* held is the node a caller of the in-memory repository holds, with what  *)
(* it shares with the repository's tree: alias is "tree" when it is the    *)
(* very object of the tree at the location at, "fields" when it is a       *)
(* copy.copy of it (a new object whose field values are the tree's),       *)
(* "none" when they share nothing; op is the caller's last operation.      *)
(***************************************************************************)
VARIABLES held

(***************************************************************************)
(* loc is a ScopedLocation a caller builds step by step and lcall its last *)
(* operation on it: the argument, the value returned, the location before  *)
(* and the operation before that one.                                      *)
(***************************************************************************)
VARIABLES loc, lcall

(***************************************************************************)
(* ctx is the AutoMLContext a caller holds, a record of its services (the  *)
(* ScopedLocation and the repository), and ccall its last call on it.      *)
(***************************************************************************)
VARIABLES ctx, ccall

(***************************************************************************)
(* procs are the processes that call one HyperparamsOnDiskRepository over  *)
(* the cache folder disk, each with the call it is in and the step of it   *)
(* that is next; lock is the mutual exclusion the callers keep outside the *)
(* repository: whether they use it, and the process that holds it.         *)
(***************************************************************************)
VARIABLES procs, lock

(***************************************************************************)
(* split is one call of Trainer.train_split: the trainer's attributes, the *)
(* position in the body, the epoch counter of the split's scope and what   *)
(* was called so far.                                                      *)
(***************************************************************************)
VARIABLES split

(***************************************************************************)
(* job is one call of DefaultLoop.TODO_DELETE_run: the attributes of the   *)
(* loop object, the machine's cpu count and what the call did.             *)
(***************************************************************************)
VARIABLES job

repoVars == << kind, root, disk, last >>
storeVars == << node, call >>
loopVars == << cfg, pc, round, gen, trials, exc, ret >>
isoVars == << held >>
locVars == << loc, lcall >>
ctxVars == << ctx, ccall >>
concVars == << procs, lock >>
trainVars == << split >>
jobVars == << job >>

vars == << kind, root, disk, last, node, call, cfg, pc, round, gen, trials, exc, ret,
           held, loc, lcall, ctx, ccall, procs, lock, split, job >>

NumAttrs == 6

\* inputs: the attribute values a caller uses at each level of a location
Attrs(level) ==
  CASE level = 1 -> {DEFAULT_PROJECT, OTHER_NAME}
    [] level = 2 -> {DEFAULT_CLIENT}
    [] level = 6 -> {MAIN_METRIC}
    [] OTHER -> 0..MaxIdx

RECURSIVE ScopesOfLen(_)
ScopesOfLen(n) ==
  IF n = 0 THEN {<< >>}
  ELSE {Append(s, a) : s \in ScopesOfLen(n - 1), a \in Attrs(n)}

\* the gapless locations of at most n attributes
Scopes(n) == {ScopedLocation(l) : l \in UNION {ScopesOfLen(k) : k \in 0..n}}

SaveScopes == Scopes(SaveDepth)

LoadScopes == Scopes(NumAttrs)

Data == 0..MaxOwn

\* a node as a caller constructs it, with keyword arguments and no children
\* given (Root and Project then get their default child)
Fresh(T, id, x) ==
  CASE T = "RootDataclass" -> RootDataclass(DefaultProjects)
    [] T = "ProjectDataclass" -> ProjectDataclass(id, DefaultClients)
    [] T = "ClientDataclass" -> ClientDataclass(id, x, << >>)
    [] T = "RoundDataclass" -> RoundDataclass(id, << >>)
    [] T = "TrialDataclass" -> TrialDataclass(x, id, << >>)
    [] T = "TrialSplitDataclass" -> TrialSplitDataclass(x, id, << >>)
    [] OTHER -> MetricResultsDataclass(id, x, << >>)

HasData(T) == T \in {"ClientDataclass", "TrialDataclass", "TrialSplitDataclass",
                     "MetricResultsDataclass"}

\* the caller assigns an own field of a node it holds
SetData(dc, x) ==
  IF BaseTrialDataclassMixin(dc.type) THEN [dc EXCEPT !.hp = x]
  ELSE IF HasData(dc.type) THEN [dc EXCEPT !.own = x]
  ELSE dc

\* the own fields of a node: everything but its sublocation
OwnFields(dc) == [type |-> dc.type, id |-> dc.id, hp |-> dc.hp, own |-> dc.own]

RECURSIVE TreeSize(_)
RECURSIVE TreeSizeOf(_, _)
TreeSize(dc) == TreeSizeOf(dc.sub, 1)
TreeSizeOf(sub, i) ==
  IF i > Len(sub) THEN 0 ELSE 1 + TreeSize(sub[i].v) + TreeSizeOf(sub, i + 1)

InBounds(r, d) ==
  /\ TreeSize(r) <= MaxNodes
  /\ Cardinality(d.dirs) <= MaxNodes + 1

repo_load(scope, deep) ==
  IF kind = "vanilla" THEN vanilla_load(root, scope, deep) ELSE disk_load(disk, scope, deep)

\* op: "none", "save", "load", "reload" (a load of the scope just saved),
\* "log" or "init" (the repository constructed again); dc, deep, err: the node saved, the flag and the outcome of the save;
\* prior: what load(scope) answered before the save; ldeep, lerr, ret: the
\* flag, the outcome and the node returned by the load
NoCall == [op |-> "none", dc |-> NoneDC, scope |-> ScopedLocation(<< >>), deep |-> FALSE,
           err |-> "ok", prior |-> Ok(NoneDC), ldeep |-> FALSE, lerr |-> "ok",
           ret |-> NoneDC]

\* op: "store", "shallow", "set_sublocation" or "getitem"; dc: the child
\* stored, or the node that shallow() or the indexing returned; before: the
\* node before the call; at: the location the node was indexed by
NoStore == [op |-> "none", dc |-> NoneDC, err |-> "ok", before |-> NoneDC,
            at |-> ScopedLocation(<< >>)]

NoRound == [id |-> None, cont |-> FALSE, open |-> FALSE]

NoCfg == [path |-> "none", n_trials |-> 0, continue_loop_on_error |-> FALSE]

\* the parts of the state a specification does not use
RepoIdle ==
  /\ kind = "none"
  /\ root = NoneDC
  /\ disk = EmptyDisk
  /\ last = NoCall

StoreIdle ==
  /\ node = NoneDC
  /\ call = NoStore

LoopIdle ==
  /\ cfg = NoCfg
  /\ pc = "off"
  /\ round = NoRound
  /\ gen = "none"
  /\ trials = << >>
  /\ exc = "none"
  /\ ret = None

NoHeld == [val |-> NoneDC, alias |-> "none", at |-> ScopedLocation(<< >>), op |-> "none"]

IsoIdle == held = NoHeld

\* op, arg, ret, err: the call, its argument (an id, for a slice by an int
\* the int), the value pop returned and the outcome; T: the class of the node
\* of with_dc or of the stop of a slice by a class ("int" for a slice by an
\* int); before: the location it was called on; self: the receiver after the
\* call; new: the call returned an instance that is not the receiver; prev:
\* the call before it when that was a pop, else the call that was never made
NoPrev == [op |-> "none", ret |-> None, before |-> ScopedLocation(<< >>)]

\* the folder, the record file and the log file of a location
NoPaths == [folder |-> << >>, record |-> PathJoin(<< >>, ""), log |-> PathJoin(<< >>, "")]

NoLocCall == [op |-> "none", T |-> "NoneType", arg |-> None, ret |-> None,
              before |-> ScopedLocation(<< >>), err |-> "ok",
              self |-> ScopedLocation(<< >>), new |-> FALSE, prev |-> NoPrev,
              path |-> NoPaths]

LocIdle ==
  /\ loc = ScopedLocation(<< >>)
  /\ lcall = NoLocCall

NoCtx == [loc |-> ScopedLocation(<< >>), repo |-> "none", fh |-> FALSE, opened |-> 0]

\* op, T, arg, at, err: the call, the class and the id of the node of
\* push_attr, the location of with_loc, the outcome; before: the context it
\* was called on; self: that context after the call; new: the call returned
\* a context that is not the one it was called on
NoCtxCall == [op |-> "none", T |-> "NoneType", arg |-> None, at |-> ScopedLocation(<< >>),
              err |-> "ok", before |-> NoCtx, self |-> NoCtx, new |-> FALSE]

CtxIdle ==
  /\ ctx = NoCtx
  /\ ccall = NoCtxCall

\* op: "none", "save" or "load"; pc: the step of the call that is next; dc,
\* scope: the arguments; err, ret: the outcome and the node a load returned;
\* again: another save at the same scope has written its file since this call
\* began
NoProc == [op |-> "none", pc |-> "idle", dc |-> NoneDC, scope |-> ScopedLocation(<< >>),
           err |-> "ok", ret |-> NoneDC, again |-> FALSE]

Procs == {1, 2}

\* used: the callers take the lock of a scope's directory around every call
\* that touches it; holder: the directories each process holds the lock of
NoLock == [used |-> FALSE, holder |-> [p \in Procs |-> {}]]

ConcIdle ==
  /\ procs = [p \in Procs |-> NoProc]
  /\ lock = NoLock

\* callbacks: "list" (the plain list the constructor leaves when it is given
\* no callbacks) or "CallbackList"; val: a validation set is given; it: the
\* iterations of the for statement begun; epoch: the epoch counter of the
\* split's scope; fits, predicts: the calls of handle_fit and handle_predict;
\* calls: the calls of the callback set, each with the epoch, is_last_epoch,
\* the fits and predicts made before it and what it answered
NoSplit == [callbacks |-> "list", n_epochs |-> 0, val |-> FALSE, pc |-> "none", it |-> 0,
            epoch |-> 0, fits |-> 0, predicts |-> 0, calls |-> << >>, err |-> "ok"]

TrainIdle == split = NoSplit

\* n_jobs, n_trial, hyperparams_repository: the attributes of the loop object
\* (n_jobs is << >> for None and << n >> for the int n, n_trial << >> when it
\* was never assigned, the repository "unset" when it was never assigned);
\* cpu_count: of the machine; pc: "start" or "done"; err: the outcome;
\* workers: the worker processes started; attempts: the trials attempted
NoJob == [n_jobs |-> << >>, n_trial |-> << >>, hyperparams_repository |-> "unset",
          cpu_count |-> 0, pc |-> "none", err |-> "ok", workers |-> 0, attempts |-> 0]

JobIdle == job = NoJob

RestIdle == ConcIdle /\ TrainIdle /\ JobIdle

Init ==
  /\ kind \in {"vanilla", "disk"}
  /\ root = RootDataclass(DefaultProjects)
  /\ disk = disk_init(EmptyDisk)
  /\ last = NoCall
  /\ StoreIdle
  /\ LoopIdle
  /\ IsoIdle
  /\ LocIdle
  /\ CtxIdle
  /\ RestIdle

\* repo.load(scope) followed by repo.save(dc, scope, deep)
SaveCall(dc, scope, deep) ==
  LET v == IF kind = "vanilla" THEN vanilla_save(root, dc, scope, deep) ELSE Ok(root)
      d == IF kind = "disk" THEN disk_save(disk, dc, scope, deep) ELSE Ok(disk)
  IN /\ InBounds(v.val, d.val)
     /\ root' = v.val
     /\ disk' = d.val
     /\ last' = [NoCall EXCEPT !.op = "save", !.dc = dc, !.scope = scope, !.deep = deep,
                               !.err = IF kind = "vanilla" THEN v.err ELSE d.err,
                               !.prior = repo_load(scope, FALSE)]
     /\ UNCHANGED << kind, storeVars, loopVars, isoVars, locVars, ctxVars, concVars, trainVars, jobVars >>

SavedTypes == {dataclass_2_subloc_attr[i] : i \in 1..(SaveDepth + 1)}

\* a freshly constructed node saved at a scope that ends at the node's own
\* level (with the node's id or another one) or at its parent's
SaveFresh ==
  /\ last.op = "none"
  /\ \E T \in SavedTypes, x \in Data, deep \in BOOLEAN, scope \in SaveScopes :
       \E id \in (IF T = "RootDataclass" THEN {None}
                  ELSE Attrs(IndexIn(dataclass_2_subloc_attr, T))) :
         /\ HasData(T) \/ x = 0
         /\ loc_len(scope) \in {IndexIn(dataclass_2_subloc_attr, T) - 1,
                                IndexIn(dataclass_2_subloc_attr, T)}
         /\ SaveCall(Fresh(T, id, x), scope, deep)

\* a node obtained from load(scope), an own field assigned, saved at that scope
SaveLoaded ==
  /\ last.op = "none"
  /\ \E scope \in SaveScopes, x \in Data, deep_load \in BOOLEAN, deep \in BOOLEAN :
       LET l == repo_load(scope, deep_load)
       IN /\ l.err = "ok"
          /\ SaveCall(SetData(l.val, x), scope, deep)

\* repo.load(scope, deep)
LoadCall ==
  /\ last.op = "none"
  /\ \E scope \in LoadScopes, deep \in BOOLEAN :
       LET l == repo_load(scope, deep)
       IN /\ last' = [NoCall EXCEPT !.op = "load", !.scope = scope, !.ldeep = deep,
                                    !.lerr = l.err, !.ret = l.val]
          /\ UNCHANGED << kind, root, disk, storeVars, loopVars, isoVars, locVars, ctxVars, concVars, trainVars, jobVars >>

\* repo.load(scope, deep) of the scope of the save just made
LoadSaved ==
  /\ last.op = "save"
  /\ \E deep \in BOOLEAN :
       LET l == repo_load(last.scope, deep)
       IN /\ last' = [last EXCEPT !.op = "reload", !.ldeep = deep, !.lerr = l.err,
                                  !.ret = l.val]
          /\ UNCHANGED << kind, root, disk, storeVars, loopVars, isoVars, locVars, ctxVars, concVars, trainVars, jobVars >>

\* a freshly constructed node of a list level with the id -1, saved at a
\* scope that ends with -1
SaveNegative ==
  /\ last.op = "none"
  /\ \E T \in {"RoundDataclass", "TrialDataclass"}, x \in Data, deep \in BOOLEAN :
       \E parent \in ScopesOfLen(IndexIn(dataclass_2_subloc_attr, T) - 1) :
         /\ HasData(T) \/ x = 0
         /\ SaveCall(Fresh(T, MINUS_ONE, x), ScopedLocation(Append(parent, MINUS_ONE)), deep)

\* a logger is given a file handler at a scope of the on-disk repository
AddLoggingHandler ==
  /\ kind = "disk"
  /\ last.op = "none"
  /\ \E scope \in SaveScopes :
       /\ InBounds(root, add_logging_handler(disk, scope))
       /\ disk' = add_logging_handler(disk, scope)
       /\ last' = [NoCall EXCEPT !.op = "log", !.scope = scope]
       /\ UNCHANGED << kind, root, storeVars, loopVars, isoVars, locVars, ctxVars, concVars, trainVars, jobVars >>

\* HyperparamsOnDiskRepository(cache_folder) is constructed again over the
\* cache folder as it is
Reopen ==
  /\ kind = "disk"
  /\ last.op = "none"
  /\ disk' = disk_init(disk)
  /\ last' = [NoCall EXCEPT !.op = "init"]
  /\ UNCHANGED << kind, root, storeVars, loopVars, isoVars, locVars, ctxVars, concVars, trainVars, jobVars >>

\* the caller lets go of the result of its call
Return ==
  /\ last.op # "none"
  /\ last' = NoCall
  /\ UNCHANGED << kind, root, disk, storeVars, loopVars, isoVars, locVars, ctxVars, concVars, trainVars, jobVars >>

Next ==
  SaveFresh \/ SaveLoaded \/ LoadCall \/ LoadSaved \/ AddLoggingHandler \/ Reopen \/ Return

Spec == Init /\ [][Next]_vars

\* ---------------------------------------------------------------- NegSpec
\* the in-memory repository under saves and loads whose ids at the list
\* levels include the negative index -1
InitNeg ==
  /\ kind = "vanilla"
  /\ root = RootDataclass(DefaultProjects)
  /\ disk = disk_init(EmptyDisk)
  /\ last = NoCall
  /\ StoreIdle
  /\ LoopIdle
  /\ IsoIdle
  /\ LocIdle
  /\ CtxIdle
  /\ RestIdle

NextNeg == SaveFresh \/ SaveNegative \/ SaveLoaded \/ LoadCall \/ LoadSaved \/ Return

NegSpec == InitNeg /\ [][NextNeg]_vars

\* ------------------------------- the two repositories given the same calls
\* an in-memory repository and an on-disk one, as their constructors make them
InitBoth ==
  /\ kind = "both"
  /\ root = RootDataclass(DefaultProjects)
  /\ disk = disk_init(EmptyDisk)
  /\ last = NoCall
  /\ StoreIdle
  /\ LoopIdle
  /\ IsoIdle
  /\ LocIdle
  /\ CtxIdle
  /\ RestIdle

\* save(dc, scope, deep) on each of the two: err is the outcome of the
\* in-memory repository, lerr that of the on-disk one
BothSave ==
  /\ last.op = "none"
  /\ \E T \in SavedTypes, x \in Data, deep \in BOOLEAN, scope \in SaveScopes :
       \E id \in (IF T = "RootDataclass" THEN {None}
                  ELSE Attrs(IndexIn(dataclass_2_subloc_attr, T))) :
         LET dc == Fresh(T, id, x)
             v == vanilla_save(root, dc, scope, deep)
             d == disk_save(disk, dc, scope, deep)
         IN /\ HasData(T) \/ x = 0
            /\ loc_len(scope) \in {IndexIn(dataclass_2_subloc_attr, T) - 1,
                                   IndexIn(dataclass_2_subloc_attr, T)}
            /\ InBounds(v.val, d.val)
            /\ root' = v.val
            /\ disk' = d.val
            /\ last' = [NoCall EXCEPT !.op = "save", !.dc = dc, !.scope = scope,
                                      !.deep = deep, !.err = v.err, !.lerr = d.err]
            /\ UNCHANGED << kind, storeVars, loopVars, isoVars, locVars, ctxVars, concVars, trainVars, jobVars >>

\* load(scope, deep=True) on each of the two: err and ret are the outcome
\* and the node of the in-memory repository, prior those of the on-disk one
BothLoad ==
  /\ last.op = "none"
  /\ \E scope \in LoadScopes :
       LET v == vanilla_load(root, scope, TRUE)
           d == disk_load(disk, scope, TRUE)
       IN /\ last' = [NoCall EXCEPT !.op = "load", !.scope = scope, !.ldeep = TRUE,
                                    !.err = v.err, !.ret = v.val, !.lerr = d.err,
                                    !.prior = d]
          /\ UNCHANGED << kind, root, disk, storeVars, loopVars, isoVars, locVars, ctxVars, concVars, trainVars, jobVars >>

NextBoth == BothSave \/ BothLoad \/ Return

BothSpec == InitBoth /\ [][NextBoth]_vars

\* ---------------------------------- the children of a list node on disk
\* the classes saved on disk whose children are kept in a list
ListParents == {"ClientDataclass", "RoundDataclass", "TrialDataclass"}

\* the scope a node of class T is saved at
ParentScope(T) ==
  ScopedLocation(SubSeq(<< DEFAULT_PROJECT, DEFAULT_CLIENT, 0, 0 >>, 1,
                        IndexIn(dataclass_2_subloc_attr, T)))

\* the cache folder after the default tree, round 0 and its trial 0 are saved
SavedChain ==
  _save_dc(disk_init(EmptyDisk),
           RoundDataclass(0, << Entry(0, TrialDataclass(0, 0, << >>)) >>),
           ParentScope("RoundDataclass"), TRUE).val

\* the child directories of the folder of a scope
ChildDirs(scope) ==
  {s \in ListDirs(disk, get_folder_at_scope(scope)) : s[1] = ON_DISK_DELIM}

InitSort ==
  /\ kind = "disk"
  /\ root = RootDataclass(DefaultProjects)
  /\ disk = SavedChain
  /\ \E T \in ListParents : last = [NoCall EXCEPT !.scope = ParentScope(T)]
  /\ StoreIdle
  /\ LoopIdle
  /\ IsoIdle
  /\ LocIdle
  /\ CtxIdle
  /\ RestIdle

\* repo.save(child, scope): the next child of the node at the scope, its id
\* the number of children the node has
SortSave ==
  LET n == Cardinality(ChildDirs(last.scope))
      C == dataclass_2_subloc_attr[loc_len(last.scope) + 2]
  IN /\ n < MaxKids
     /\ \E x \in {0, MaxOwn} :
          LET dc == Fresh(C, n, x)
              d == disk_save(disk, dc, last.scope, FALSE)
          IN /\ HasData(C) \/ x = 0
             /\ disk' = d.val
             /\ last' = [NoCall EXCEPT !.op = "save", !.dc = dc, !.scope = last.scope,
                                       !.err = d.err]
             /\ UNCHANGED << kind, root, storeVars, loopVars, isoVars, locVars, ctxVars, concVars, trainVars, jobVars >>

\* repo.load(scope, deep) of the node
SortLoad ==
  \E deep \in BOOLEAN :
    LET l == disk_load(disk, last.scope, deep)
    IN /\ last' = [NoCall EXCEPT !.op = "load", !.scope = last.scope, !.ldeep = deep,
                                 !.lerr = l.err, !.ret = l.val]
       /\ UNCHANGED << kind, root, disk, storeVars, loopVars, isoVars, locVars, ctxVars, concVars, trainVars, jobVars >>

NextSort == SortSave \/ SortLoad

SortSpec == InitSort /\ [][NextSort]_vars

\* ------------------------------------------------------- store on one node
\* the nodes store is called on: one of each class that has child nodes,
\* as its constructor makes it
Parents ==
  {RootDataclass(DefaultProjects), ProjectDataclass(DEFAULT_PROJECT, DefaultClients),
   ClientDataclass(DEFAULT_CLIENT, 0, << >>), RoundDataclass(0, << >>),
   TrialDataclass(0, 0, << >>), TrialSplitDataclass(0, 0, << >>)}

\* the ids given to a child: the indices up to one past the longest list, and
\* two names
ChildIds == (0..(MaxLen + 1)) \cup {DEFAULT_CLIENT, OTHER_NAME}

\* the children given to store on a node of class T: of the class T holds,
\* with one of two values as data, or of T's own class; with an int or a str
\* as id whatever the class
Children(T) ==
  {Fresh(dataclass_2_subdataclass(T), id, x) : id \in ChildIds, x \in {0, MaxOwn}}
    \cup {Fresh(C, id, 0) : C \in {T} \ {"RootDataclass"}, id \in ChildIds}

InitStore ==
  /\ node \in Parents
  /\ call = NoStore
  /\ RepoIdle
  /\ LoopIdle
  /\ IsoIdle
  /\ LocIdle
  /\ CtxIdle
  /\ RestIdle

\* node.store(dc)
Store ==
  \E dc \in Children(node.type) \cup {RootDataclass(DefaultProjects)} :
    LET r == store(node, dc)
    IN /\ Len(r.val.sub) <= MaxLen
       /\ node' = r.val
       /\ call' = [NoStore EXCEPT !.op = "store", !.dc = dc, !.err = r.err, !.before = node]
       /\ UNCHANGED << repoVars, loopVars, isoVars, locVars, ctxVars, concVars, trainVars, jobVars >>

\* node = node.shallow(): the copy replaces the node when the call returns;
\* set_sublocation is called on the copy that copy.copy made, the node it
\* was called on keeps its attributes
Shallow ==
  LET r == shallow(node)
  IN /\ node' = IF r.err = "ok" THEN r.val ELSE node
     /\ call' = [NoStore EXCEPT !.op = "shallow", !.err = r.err, !.before = node,
                                !.dc = IF r.err = "ok" THEN r.val ELSE NoneDC]
     /\ UNCHANGED << repoVars, loopVars, isoVars, locVars, ctxVars, concVars, trainVars, jobVars >>

\* the sublocations given to set_sublocation on a node of class T: empty, or
\* of one entry, whose key for an OrderedDict is a name or an int
Sublocations(T) ==
  {<< >>} \cup
  {<< Entry(k, c) >> : c \in {d \in Children(T) : d.id = DEFAULT_CLIENT} \cup {NoneDC},
                      k \in IF DataclassHasListMixin(T) THEN {0} ELSE {0, DEFAULT_CLIENT}}

\* node.set_sublocation(sublocation): the attribute is set, then _invariant
SetSublocation ==
  \E sublocation \in Sublocations(node.type) :
    LET r == set_sublocation(node, sublocation)
    IN /\ node' = r.val
       /\ call' = [NoStore EXCEPT !.op = "set_sublocation", !.err = r.err, !.before = node]
       /\ UNCHANGED << repoVars, loopVars, isoVars, locVars, ctxVars, concVars, trainVars, jobVars >>

\* the locations a node of class T is indexed by: the coordinates above its
\* children's set, then a key of a child or none, then one of a grandchild or
\* none
LocsBelow(T) ==
  LET i == IndexIn(dataclass_2_subloc_attr, T) + 1
  IN {[k \in 1..NumAttrs |-> IF k < i THEN 0 ELSE IF k = i THEN k1
                              ELSE IF k = i + 1 THEN k2 ELSE None] :
        k1 \in ChildIds \cup {None}, k2 \in {None, 0, DEFAULT_CLIENT}}

\* node[loc]
GetItem ==
  /\ call.op # "getitem"
  /\ \E at \in LocsBelow(node.type) :
       LET r == dc_getitem(node, at)
       IN /\ at = ScopedLocation(as_list(at))
          /\ call' = [NoStore EXCEPT !.op = "getitem", !.err = r.err, !.before = node,
                                     !.dc = r.val, !.at = at]
          /\ UNCHANGED << node, repoVars, loopVars, isoVars, locVars, ctxVars, concVars, trainVars, jobVars >>

NextStore == Store \/ Shallow \/ SetSublocation \/ GetItem

StoreSpec == InitStore /\ [][NextStore]_vars

\* ------------------------------------- the caller's node and the stored tree
(***************************************************************************)
(* A reference is a record [val, alias]: the node's value and what the     *)
(* object shares with the tree of the in-memory repository.                *)
(***************************************************************************)
\* a deepcopy that gives back the object it was given
deepcopy_same(ref) == ref

\* copy.deepcopy(x): the same value in an object that shares nothing
deepcopy(ref) == [ref EXCEPT !.alias = "none"]

\* shallow() on an object: copy.copy(self), a new sublocation of None given
\* to set_sublocation, then copy.deepcopy of the copy
shallow_ref(ref) ==
  deepcopy([val |-> shallow(ref.val).val,
            alias |-> IF ref.alias = "none" THEN "none" ELSE "fields"])

\* load(scope, deep) on objects: self.root[scope] is the object of the tree,
\* a node made for a KeyError is a new one; the result is deep-copied
load_ref(tree, scope, deep) ==
  LET r == dc_getitem(tree, scope)
      l == vanilla_load(tree, scope, deep)
      got == IF r.err # "ok" THEN [val |-> l.val, alias |-> "none"]
             ELSE IF deep THEN [val |-> l.val, alias |-> "tree"]
             ELSE shallow_ref([val |-> r.val, alias |-> "tree"])
  IN [err |-> l.err, ref |-> deepcopy(got)]

\* save(_dataclass, scope, deep) on objects: what the caller's object shares
\* with the node the tree holds after the call; the save starts with
\* _dataclass = copy.deepcopy(_dataclass), and the copy is what is stored
save_ref(ref) == deepcopy([ref EXCEPT !.alias = "tree"])

\* where save(dc, scope) puts the node in the tree
saved_at(dc, scope) ==
  IF dc.type = "RootDataclass" THEN ScopedLocation(<< >>) ELSE loc_slice(scope, dc.type)

\* the tree with the node at the location replaced
RECURSIVE replace_at(_, _, _)
replace_at(self, at, new) ==
  LET subdataklass == dataclass_2_subdataclass(self.type)
      key == IF subdataklass = "NoneType" THEN None ELSE loc_getitem(at, subdataklass)
  IN IF key = None \/ ~HasKey(self, key) THEN new
     ELSE [self EXCEPT !.sub[KeyPos(self, key)].v = replace_at(@, at, new)]

\* what the caller does to the node it holds: "assign" binds an own field to
\* a new value, "inplace" changes the value an own field is bound to,
\* "store" adds a child to the sublocation
Mutations == {"assign", "inplace", "store"}

mutated(dc, how, x) ==
  IF how = "store"
  THEN store(dc, Fresh(dataclass_2_subdataclass(dc.type),
                       IF DataclassHasListMixin(dc.type) THEN get_next_i(dc) ELSE OTHER_NAME,
                       x))
  ELSE Ok(SetData(dc, x))

\* the mutation reaches the tree when the object is the tree's, and when it
\* changes in place a value that a copy.copy shares with the tree's
reaches(alias, how) == alias = "tree" \/ (alias = "fields" /\ how = "inplace")

InitIso ==
  /\ kind = "vanilla"
  /\ root = RootDataclass(DefaultProjects)
  /\ disk = EmptyDisk
  /\ last = NoCall
  /\ held = NoHeld
  /\ StoreIdle
  /\ LoopIdle
  /\ LocIdle
  /\ CtxIdle
  /\ RestIdle

\* held = repo.load(scope, deep)
IsoLoad ==
  \E scope \in SaveScopes, deep \in BOOLEAN :
    LET l == load_ref(root, scope, deep)
    IN /\ l.err = "ok"
       /\ held' = [val |-> l.ref.val, alias |-> l.ref.alias, at |-> scope, op |-> "load"]
       /\ UNCHANGED << repoVars, storeVars, loopVars, locVars, ctxVars, concVars, trainVars, jobVars >>

\* repo.save(held, scope, deep)
IsoSave ==
  /\ held.op # "none"
  /\ \E scope \in SaveScopes, deep \in BOOLEAN :
       LET s == vanilla_save(root, held.val, scope, deep)
       IN /\ s.err = "ok"
          /\ TreeSize(s.val) <= MaxNodes
          /\ root' = s.val
          /\ held' = [val |-> held.val, alias |-> save_ref(held).alias,
                      at |-> saved_at(held.val, scope), op |-> "save"]
          /\ UNCHANGED << kind, disk, last, storeVars, loopVars, locVars, ctxVars, concVars, trainVars, jobVars >>

\* the caller changes the node it holds
IsoMutate ==
  /\ held.op # "none"
  /\ \E how \in Mutations, x \in Data :
       LET m == mutated(held.val, how, x)
           there == dc_getitem(root, held.at)
       IN /\ m.err = "ok"
          /\ m.val # held.val
          /\ TreeSize(m.val) <= MaxNodes
          /\ held' = [held EXCEPT !.val = m.val, !.op = "mutate"]
          /\ root' = IF reaches(held.alias, how) /\ there.err = "ok"
                     THEN replace_at(root, held.at,
                                     IF held.alias = "tree" THEN m.val
                                     ELSE mutated(there.val, how, x).val)
                     ELSE root
          /\ UNCHANGED << kind, disk, last, storeVars, loopVars, locVars, ctxVars, concVars, trainVars, jobVars >>

NextIso == IsoLoad \/ IsoSave \/ IsoMutate

IsoSpec == InitIso /\ [][NextIso]_vars

\* ------------------------------------------------------ get_best_hyperparams
\* loc.as_list()[:3] given to ScopedLocation as its one positional argument:
\* project_name is then a list, which is no str, no int and no key of a node
ListAttr == 0 - 2

\* a main-metric result of one validation value: the value and
\* higher_is_better are its own fields
MetricOwn(score, higher_is_better) == 2 * score + (IF higher_is_better THEN 1 ELSE 0)

\* round.best_trial: no dataclass of vanilla.py has such a field, property or
\* method, so the attribute lookup raises
best_trial(dc) == Raise("AttributeError", NoneDC)

\* get_best_hyperparams(loc), with load the repository's own
get_best_hyperparams(at) ==
  LET scope == ScopedLocation(<< ListAttr >>)
      round_dc == repo_load(scope, FALSE)
  IN IF round_dc.err # "ok" THEN round_dc ELSE best_trial(round_dc.val)

\* a trial of one validation split that holds the main metric's result
ScoredTrial(i, score, hib) ==
  TrialDataclass(0, i,
    << Entry(0, TrialSplitDataclass(0, 0,
         << Entry(MAIN_METRIC,
                  MetricResultsDataclass(MAIN_METRIC, MetricOwn(score, hib), << >>)) >>)) >>)

\* the tree of a finished round 0 of the default client
ScoredRoot(scores, hib) ==
  RootDataclass(<< Entry(DEFAULT_PROJECT, ProjectDataclass(DEFAULT_PROJECT,
    << Entry(DEFAULT_CLIENT, ClientDataclass(DEFAULT_CLIENT, 0,
      << Entry(0, RoundDataclass(0,
           [i \in 1..Len(scores) |-> Entry(i - 1, ScoredTrial(i - 1, scores[i], hib))]))
      >>)) >>)) >>)

ScoreLists == UNION {[1..n -> 0..MaxScore] : n \in 1..MaxTrials}

RoundScope == ScopedLocation(<< DEFAULT_PROJECT, DEFAULT_CLIENT, 0 >>)

\* a repository of either kind that holds a round of scored trials
InitBest ==
  /\ kind \in {"vanilla", "disk"}
  /\ \E scores \in ScoreLists, hib \in BOOLEAN :
       /\ root = IF kind = "vanilla" THEN ScoredRoot(scores, hib)
                 ELSE RootDataclass(DefaultProjects)
       /\ disk = IF kind = "disk"
                 THEN disk_save(disk_init(EmptyDisk), ScoredRoot(scores, hib),
                                ScopedLocation(<< >>), TRUE).val
                 ELSE disk_init(EmptyDisk)
  /\ last = NoCall
  /\ StoreIdle
  /\ LoopIdle
  /\ IsoIdle
  /\ LocIdle
  /\ CtxIdle
  /\ RestIdle

\* repo.get_best_hyperparams(loc), loc the round's scope or one below it
GetBest ==
  /\ last.op = "none"
  /\ \E at \in {RoundScope, with_id(RoundScope, 0).val} :
       LET b == get_best_hyperparams(at)
       IN /\ last' = [NoCall EXCEPT !.op = "best", !.scope = at, !.lerr = b.err,
                                    !.ret = b.val]
          /\ UNCHANGED << kind, root, disk, storeVars, loopVars, isoVars, locVars, ctxVars, concVars, trainVars, jobVars >>

NextBest == GetBest \/ Return

BestSpec == InitBest /\ [][NextBest]_vars

\* ------------------------------------------------- building a ScopedLocation
\* the ids given to with_id and to the node of with_dc
LocIds == {None, 0, DEFAULT_PROJECT}

AllTypes == {dataclass_2_subloc_attr[i] : i \in 1..(NumAttrs + 1)}

InitLoc ==
  /\ loc = ScopedLocation(<< >>)
  /\ lcall = NoLocCall
  /\ RepoIdle
  /\ StoreIdle
  /\ LoopIdle
  /\ IsoIdle
  /\ CtxIdle
  /\ RestIdle

\* a constructor call that gives back the object the method was called on
the_receiver(v) == [val |-> v, same |-> TRUE]

\* ScopedLocation(...): the value in a new instance, which is not the receiver
new_instance(v) == [val |-> v, same |-> FALSE]

\* the call made now, remembering the one before it if that was a pop
Called(op, T, arg, value, err, self_after, new) ==
  [op |-> op, T |-> T, arg |-> arg, ret |-> value, before |-> loc, err |-> err,
   self |-> self_after, new |-> new,
   prev |-> IF lcall.op = "pop"
            THEN [op |-> "pop", ret |-> lcall.ret, before |-> lcall.before]
            ELSE NoPrev,
   path |-> NoPaths]

\* a call that returns the ScopedLocation it constructed, which the caller
\* goes on with; when it raises the caller keeps the one it had.  with_dc is
\* the one that assigns to an attribute, of the instance it got from copy().
Returned(op, T, arg, r) ==
  LET obj == new_instance(r.val)
      written == op = "with_dc" /\ T # "RootDataclass" /\ r.err = "ok" /\ obj.same
  IN /\ loc' = IF r.err = "ok" THEN r.val ELSE loc
     /\ lcall' = Called(op, T, arg, None, r.err, IF written THEN r.val ELSE loc,
                        r.err = "ok" /\ ~obj.same)
     /\ UNCHANGED << repoVars, storeVars, loopVars, isoVars, ctxVars, concVars, trainVars, jobVars >>

\* loc = loc.with_id(_id)
WithId == \E id \in LocIds : Returned("with_id", "NoneType", id, with_id(loc, id))

\* loc = loc.with_dc(dc)
WithDc ==
  \E T \in AllTypes, id \in LocIds :
    Returned("with_dc", T, id,
             with_dc(loc, Fresh(T, IF T = "RootDataclass" THEN None ELSE id, 0)))

\* loc.pop(): the last attribute that is not None is reset in place and
\* returned; None is returned when there is none
Pop ==
  /\ loc' = pop(loc)
  /\ lcall' = Called("pop", "NoneType", None,
                     IF LastSet(loc) = 0 THEN None ELSE loc[LastSet(loc)], "ok",
                     pop(loc), FALSE)
  /\ UNCHANGED << repoVars, storeVars, loopVars, isoVars, ctxVars, concVars, trainVars, jobVars >>

\* loc = loc.popped()
Popped == Returned("popped", "NoneType", None, Ok(popped(loc)))

\* loc = loc.copy()
Copy == Returned("copy", "NoneType", None, Ok(loc_copy(loc)))

\* loc = loc[:T], T a dataclass type, and loc = loc[:n], n an int
Slice ==
  \/ \E T \in AllTypes : Returned("slice", T, None, Ok(loc_slice(loc, T)))
  \/ \E n \in (0 - NumAttrs)..NumAttrs :
       Returned("slice", "int", n, Ok(loc_slice_idx(loc, n)))

\* the on-disk repository is asked for the folder, the record file and the
\* log file of loc
GetPaths ==
  /\ lcall.op # "paths"
  /\ lcall' = [Called("paths", "NoneType", None, None, "ok", loc, FALSE) EXCEPT
                !.path = [folder |-> get_folder_at_scope(loc),
                          record |-> _get_dataclass_filename_path(NoneDC, loc).save_file,
                          log |-> get_scoped_logger_path(loc)]]
  /\ UNCHANGED << loc, repoVars, storeVars, loopVars, isoVars, ctxVars, concVars, trainVars, jobVars >>

NextLoc == WithId \/ WithDc \/ Pop \/ Popped \/ Copy \/ Slice \/ GetPaths

LocSpec == InitLoc /\ [][NextLoc]_vars

\* --------------------------------------------------- the AutoMLContext
(***************************************************************************)
(* A context is a record [loc, repo, fh, opened]: the services it holds,    *)
(* the ScopedLocation and the name of the repository, whether it has the   *)
(* attribute fh, the file handler of its logger, and the number of log     *)
(* files it has opened.  A call answers                                    *)
(* [err, val, self, new]: the context returned, the context it was called  *)
(* on as the call leaves it, and whether the two are distinct instances.   *)
(***************************************************************************)
\* an add_scoped_logger_file_handler that adds a handler to a context that
\* has one
add_scoped_logger_file_handler_again(t) == Ok([t EXCEPT !.fh = TRUE, !.opened = @ + 1])

\* AutoMLContext.add_scoped_logger_file_handler: a ValueError when the
\* context has a handler already, else the folder is made, the log file
\* opened by FileHandler, and the handler added and kept as fh
add_scoped_logger_file_handler(t) ==
  IF t.fh THEN Raise("ValueError", t) ELSE Ok([t EXCEPT !.fh = TRUE, !.opened = @ + 1])

\* AutoMLContext.free_scoped_logger_handler_file: the handler is removed,
\* closed and deleted; a ValueError when there is none
free_scoped_logger_handler_file(t) ==
  IF t.fh THEN Ok([t EXCEPT !.fh = FALSE]) ELSE Raise("ValueError", t)

\* ExecutionContext.copy(): another context with the same services; fh is
\* not a service and the new context has none
ctx_copy(self) == [val |-> [self EXCEPT !.fh = FALSE, !.opened = 0], same |-> FALSE]

\* register_service(ScopedLocation, loc) on a context
register_service(self, at) == [self EXCEPT !.loc = at]

\* a with_loc that registers the location on the context it is called on
with_loc_in_place(self, at) ==
  [err |-> "ok", val |-> register_service(self, at), self |-> register_service(self, at),
   new |-> FALSE]

\* with_loc: new_self = self.copy(); new_self.register_service(...)
with_loc(self, at) ==
  LET new_self == ctx_copy(self)
      registered == register_service(new_self.val, at)
  IN [err |-> "ok", val |-> registered,
      self |-> IF new_self.same THEN registered ELSE self, new |-> ~new_self.same]

\* push_attr: self.with_loc(self.loc.with_dc(subdataclass))
push_attr(self, subdataclass) ==
  LET l == with_dc(self.loc, subdataclass)
  IN IF l.err # "ok" THEN [err |-> l.err, val |-> self, self |-> self, new |-> FALSE]
     ELSE with_loc(self, l.val)

\* from_context(repo=...): the location registered is ScopedLocation()
InitCtx ==
  /\ ctx \in {[NoCtx EXCEPT !.repo = r] : r \in {"vanilla", "disk"}}
  /\ ccall = NoCtxCall
  /\ RepoIdle
  /\ StoreIdle
  /\ LoopIdle
  /\ IsoIdle
  /\ LocIdle
  /\ RestIdle

\* the caller goes on with the context returned, with its own when the call
\* raised
CtxReturned(op, T, arg, at, r) ==
  /\ ctx' = IF r.err = "ok" THEN r.val ELSE r.self
  /\ ccall' = [op |-> op, T |-> T, arg |-> arg, at |-> at, err |-> r.err, before |-> ctx,
               self |-> r.self, new |-> r.new]
  /\ UNCHANGED << repoVars, storeVars, loopVars, isoVars, locVars, concVars, trainVars, jobVars >>

\* ctx = ctx.push_attr(dc)
PushAttr ==
  \E T \in AllTypes, id \in LocIds :
    LET dc == Fresh(T, IF T = "RootDataclass" THEN None ELSE id, 0)
    IN CtxReturned("push_attr", T, dc.id, ScopedLocation(<< >>), push_attr(ctx, dc))

\* ctx = ctx.with_loc(loc)
WithLoc ==
  \E at \in Scopes(SaveDepth - 2) : CtxReturned("with_loc", "NoneType", None, at, with_loc(ctx, at))

\* ctx.add_scoped_logger_file_handler()
AddHandler ==
  LET r == add_scoped_logger_file_handler(ctx)
  IN /\ ctx.fh \/ ctx.opened < MaxOpened
     /\ ctx' = r.val
     /\ ccall' = [NoCtxCall EXCEPT !.op = "add", !.err = r.err, !.before = ctx,
                                   !.self = r.val]
     /\ UNCHANGED << repoVars, storeVars, loopVars, isoVars, locVars, concVars, trainVars, jobVars >>

\* ctx.free_scoped_logger_handler_file()
FreeHandler ==
  LET r == free_scoped_logger_handler_file(ctx)
  IN /\ ctx' = r.val
     /\ ccall' = [NoCtxCall EXCEPT !.op = "free", !.err = r.err, !.before = ctx,
                                   !.self = r.val]
     /\ UNCHANGED << repoVars, storeVars, loopVars, isoVars, locVars, concVars, trainVars, jobVars >>

NextCtx == PushAttr \/ WithLoc \/ AddHandler \/ FreeHandler

CtxSpec == InitCtx /\ [][NextCtx]_vars


\* ------------------------------------------------------- the controller loop
(***************************************************************************)
(* A trial or a split is a record [status, cont, writes, trained, raised,  *)
(* splits]: cont is set by continue_loop_on_error(), writes counts the     *)
(* times the node was committed to the repository, trained says that the   *)
(* trainer was given the trial, raised that its training raised.  hist is  *)
(* the sequence of the values its status was given, split_hists that of    *)
(* each of its splits; fh says that its context holds the file handler of  *)
(* its logger, gc that gc.collect() has run since it ended.                *)
(* The aggregates (Round, Trial, TrialSplit and the trial of the older     *)
(* repository interface) are used by auto_ml.py as context managers; what  *)
(* entering and leaving their scopes does follows the lifecycle of the     *)
(* controller loop: PLANNED -> RUNNING on entry; on exit SUCCESS without   *)
(* an error, FAILED and the error swallowed when the scope continues on    *)
(* error, ABORTED and the error raised again otherwise; one commit on exit.*)
(* The scope's context is given its log handle on entry and frees it on    *)
(* exit.                                                                   *)
(***************************************************************************)
NewAggregate ==
  [status |-> "PLANNED", cont |-> FALSE, writes |-> 0, trained |-> FALSE, raised |-> FALSE,
   splits |-> << >>, hist |-> << "PLANNED" >>, split_hists |-> << >>, fh |-> FALSE,
   opened |-> 0, gc |-> FALSE]

\* self.status = status
set_status(t, status) == [t EXCEPT !.status = status, !.hist = Append(@, status)]

ScopeEnter(t) == set_status(add_scoped_logger_file_handler(t).val, "RUNNING")

ExitStatus(e, cont) ==
  IF e = "none" THEN "SUCCESS" ELSE IF cont THEN "FAILED" ELSE "ABORTED"

Swallowed(e, cont) == e # "none" /\ cont

ScopeExit(t, e) ==
  [set_status(free_scoped_logger_handler_file(t).val, ExitStatus(e, t.cont))
     EXCEPT !.writes = @ + 1]

continue_loop_on_error(t) == [t EXCEPT !.cont = TRUE]

\* a trial left without a collection
gc_skipped(t) == t

\* gc.collect() after the trial t
gc_collect(t) == [t EXCEPT !.gc = TRUE]

\* the scope of a trial is left: the exit of the scope, then the memory
\* reclamation step that follows every trial
TrialExit(t, e) == gc_collect(ScopeExit(t, e))

\* a new_rvs_trial whose trial is yielded without its scope entered
new_rvs_trial_unentered(c) ==
  IF c.continue_loop_on_error THEN continue_loop_on_error(NewAggregate) ELSE NewAggregate

\* with round_scope.new_rvs_trial() as managed_trial_scope, up to the yield
new_rvs_trial(c) ==
  IF c.continue_loop_on_error THEN continue_loop_on_error(ScopeEnter(NewAggregate))
  ELSE ScopeEnter(NewAggregate)

\* Trainer.train on n splits, of which the k-th raises in train_split (k = 0:
\* none does): each split is trained inside its own scope, and an error that
\* the split's scope does not swallow leaves train
RECURSIVE train_from(_, _, _, _)
train_from(t, n, k, j) ==
  IF j > n THEN Ok(t)
  ELSE LET e == IF j = k THEN "Exception" ELSE "none"
           s == ScopeExit(ScopeEnter(NewAggregate), e)
           t1 == [t EXCEPT !.splits = Append(@, s.status),
                           !.split_hists = Append(@, s.hist)]
       IN IF e # "none" /\ ~Swallowed(e, s.cont) THEN Raise(e, [t1 EXCEPT !.raised = TRUE])
          ELSE train_from(t1, n, k, j + 1)

train(t, n, k) == train_from([t EXCEPT !.trained = TRUE], n, k, 1)

Last(ts) == ts[Len(ts)]

\* close() of the generator of loop, suspended at its yield: GeneratorExit is
\* raised there, inside the scope of the trial.  If the scope swallows it the
\* generator runs on: a next iteration enters a new trial and yields again,
\* which close() answers with a RuntimeError and the frame is discarded.
gen_close(ts, c) ==
  LET left == [ts EXCEPT ![Len(ts)] = TrialExit(@, "GeneratorExit")]
  IN IF Swallowed("GeneratorExit", Last(ts).cont) /\ Len(ts) < c.n_trials
     THEN Append(left, new_rvs_trial(c))
     ELSE left

Configs ==
  [path : {"run", "attempt"}, n_trials : 1..MaxTrials, continue_loop_on_error : BOOLEAN]

InitLoop ==
  /\ cfg \in Configs
  /\ pc = "start"
  /\ round = NoRound
  /\ gen = "none"
  /\ trials = << >>
  /\ exc = "none"
  /\ ret = None
  /\ RepoIdle
  /\ StoreIdle
  /\ IsoIdle
  /\ LocIdle
  /\ CtxIdle
  /\ RestIdle

\* run, up to the for statement: the round's scope entered, the flag passed on
RunEnter ==
  /\ pc = "start"
  /\ cfg.path = "run"
  /\ round' = [id |-> 0, cont |-> cfg.continue_loop_on_error, open |-> TRUE]
  /\ gen' = "created"
  /\ pc' = "for"
  /\ UNCHANGED << cfg, trials, exc, ret, repoVars, storeVars, isoVars, locVars, ctxVars, concVars, trainVars, jobVars >>

\* the for statement of run resumes the generator of loop: the scope of the
\* trial it was suspended in is left without an error, then either the next
\* trial is entered and yielded or the generator returns
ForNext ==
  /\ pc = "for"
  /\ LET left == IF gen = "suspended"
                 THEN [trials EXCEPT ![Len(trials)] = TrialExit(@, "none")]
                 ELSE trials
     IN IF Len(left) < cfg.n_trials
        THEN /\ trials' = Append(left, new_rvs_trial(cfg))
             /\ gen' = "suspended"
             /\ pc' = "body"
        ELSE /\ trials' = left
             /\ gen' = "returned"
             /\ pc' = "after_for"
  /\ UNCHANGED << cfg, round, exc, ret, repoVars, storeVars, isoVars, locVars, ctxVars, concVars, trainVars, jobVars >>

\* the body of the for statement: self.trainer.train(pipeline, dact, trial)
Train ==
  /\ pc = "body"
  /\ \E n \in 1..MaxSplits, k \in 0..MaxSplits :
       LET r == train(Last(trials), n, k)
       IN /\ k <= n
          /\ trials' = [trials EXCEPT ![Len(trials)] = r.val]
          /\ exc' = IF r.err = "ok" THEN exc ELSE r.err
          /\ pc' = IF r.err = "ok" THEN "for" ELSE "unwind"
  /\ UNCHANGED << cfg, round, gen, ret, repoVars, storeVars, isoVars, locVars, ctxVars, concVars, trainVars, jobVars >>

\* the error leaves the for statement: the generator, suspended at its yield,
\* is dropped and is finalized now or left to the collector; the round's scope
\* is left with the error, and if it swallows it `return round_id` finds
\* round_id unassigned
Unwind ==
  /\ pc = "unwind"
  /\ \E now \in BOOLEAN :
       /\ trials' = IF now THEN gen_close(trials, cfg) ELSE trials
       /\ gen' = IF now THEN "closed" ELSE "dropped"
  /\ round' = [round EXCEPT !.open = FALSE]
  /\ exc' = IF Swallowed(exc, round.cont) THEN "UnboundLocalError" ELSE exc
  /\ pc' = "raised"
  /\ UNCHANGED << cfg, ret, repoVars, storeVars, isoVars, locVars, ctxVars, concVars, trainVars, jobVars >>

\* the collector finalizes a dropped generator
Collect ==
  /\ gen = "dropped"
  /\ trials' = gen_close(trials, cfg)
  /\ gen' = "collected"
  /\ UNCHANGED << cfg, pc, round, exc, ret, repoVars, storeVars, isoVars, locVars, ctxVars, concVars, trainVars, jobVars >>

\* after the for statement: round_id assigned, the round's scope left, return
RunReturn ==
  /\ pc = "after_for"
  /\ round' = [round EXCEPT !.open = FALSE]
  /\ ret' = round.id
  /\ pc' = "returned"
  /\ UNCHANGED << cfg, gen, trials, exc, repoVars, storeVars, isoVars, locVars, ctxVars, concVars, trainVars, jobVars >>


\* the trial of the older repository interface used by _attempt_trial: its
\* `with` only binds repo_trial, RUNNING, and no handler is given to a
\* context (set_logger is given the trial's own logger); set_failed marks it, update_final_trial_status
\* settles a status still open and commits the trial
set_failed(t) == set_status(t, "FAILED")

update_final_trial_status(t) ==
  [(IF t.status # "RUNNING" THEN t
    ELSE set_status(t, IF t.trained /\ ~t.raised THEN "SUCCESS" ELSE "FAILED"))
   EXCEPT !.writes = @ + 1]

\* where an attempt raises, and whether with an error of error_types_to_raise
FailurePoints == {"none", "load_trials", "new_trial", "set_logger", "execute_trial"}
Errors == {"Fatal", "Exception"}

\* _attempt_trial, raising e at the point at: .val is the trials afterwards.
\* Before repo_trial is bound (load_trials raises, or the entry of new_trial's
\* scope does, the trial made) both handlers and the finally clause read an
\* unbound local.  The finally clause ends with gc.collect().
_attempt_trial(ts, at, e) ==
  LET entered == set_status(NewAggregate, "RUNNING")
      t == IF at = "execute_trial" THEN [entered EXCEPT !.trained = TRUE, !.raised = TRUE]
           ELSE IF at = "none" THEN [entered EXCEPT !.trained = TRUE]
           ELSE entered
  IN CASE at = "load_trials" -> Raise("UnboundLocalError", ts)
       [] at = "new_trial" -> Raise("UnboundLocalError", Append(ts, NewAggregate))
       [] at = "none" -> Ok(Append(ts, gc_collect(update_final_trial_status(t))))
       [] OTHER ->
            IF e = "Fatal"
            THEN Raise(e, Append(ts, gc_collect(update_final_trial_status(set_failed(t)))))
            ELSE Ok(Append(ts, gc_collect(update_final_trial_status(t))))

\* one iteration of the single-process loop over _attempt_trial
AttemptTrial ==
  /\ pc = "start"
  /\ cfg.path = "attempt"
  /\ \E at \in FailurePoints, e \in Errors :
       LET r == _attempt_trial(trials, at, e)
       IN /\ trials' = r.val
          /\ exc' = IF r.err = "ok" THEN exc ELSE r.err
          /\ pc' = IF r.err # "ok" THEN "raised"
                   ELSE IF Len(r.val) = cfg.n_trials THEN "returned" ELSE "start"
  /\ UNCHANGED << cfg, round, gen, ret, repoVars, storeVars, isoVars, locVars, ctxVars, concVars, trainVars, jobVars >>

NextLoop == RunEnter \/ ForNext \/ Train \/ Unwind \/ Collect \/ RunReturn \/ AttemptTrial

LoopSpec == InitLoop /\ [][NextLoop]_vars


\* ------------------------------- processes on one on-disk repository
(***************************************************************************)
(* Each process calls save(dc, scope) and load(scope), both with           *)
(* deep=False, on a HyperparamsOnDiskRepository over the same cache        *)
(* folder.  A call is taken in the steps that touch the file system:       *)
(* makedirs, open(save_file, 'w') (which leaves the file empty) and        *)
(* json.dump with the close of the file for a save; the two calls of       *)
(* _load_dc that load makes for a load.  A file that was opened for        *)
(* writing and is not yet closed does not parse.  The repository has no    *)
(* lock; when the callers use one, a process takes the lock of the         *)
(* directory its call touches before the call and gives it back after.     *)
(***************************************************************************)
\* a lock that is free for everyone at any time
CanAcquire_always(l, p, folder) == TRUE

is_locking_required == TRUE

\* the callers' lock of the directory is not held by another process
CanAcquire(l, p, folder) == \A q \in Procs \ {p} : folder \notin l.holder[q]

Acquire(l, p, folder) == IF l.used THEN [l EXCEPT !.holder[p] = {folder}] ELSE l

Release(l, p) == [l EXCEPT !.holder[p] = {}]

\* the calls the processes make: each node saved at the scope that addresses it
ConcCalls ==
  LET client == ScopedLocation(<< DEFAULT_PROJECT, DEFAULT_CLIENT >>)
      saves ==
        {[op |-> "save", dc |-> ClientDataclass(DEFAULT_CLIENT, x, << >>), scope |-> client] :
           x \in Data}
        \cup {[op |-> "save", dc |-> ProjectDataclass(OTHER_NAME, DefaultClients),
               scope |-> ScopedLocation(<< OTHER_NAME >>)],
              [op |-> "save", dc |-> RoundDataclass(0, << >>),
               scope |-> ScopedLocation(<< DEFAULT_PROJECT, DEFAULT_CLIENT, 0 >>)]}
  IN saves \cup {[op |-> "load", dc |-> NoneDC, scope |-> c.scope] : c \in saves}

\* the directory of the record file the call writes or reads
FolderOf(pr) ==
  _get_dataclass_filename_path(IF pr.op = "save" THEN pr.dc ELSE NoneDC, pr.scope).save_folder

InitConc ==
  /\ kind = "disk"
  /\ root = RootDataclass(DefaultProjects)
  /\ disk = disk_init(EmptyDisk)
  /\ last = NoCall
  /\ procs = [p \in Procs |-> NoProc]
  /\ lock \in {[NoLock EXCEPT !.used = u] : u \in BOOLEAN}
  /\ StoreIdle
  /\ LoopIdle
  /\ IsoIdle
  /\ LocIdle
  /\ CtxIdle
  /\ TrainIdle
  /\ JobIdle

ConcRest == << kind, root, last, storeVars, loopVars, isoVars, locVars, ctxVars, trainVars,
               jobVars >>

\* a process takes the lock, if the callers use one, and calls save or load
Begin(p) ==
  /\ procs[p].pc = "idle"
  /\ \E c \in ConcCalls :
       LET pr == [NoProc EXCEPT !.op = c.op, !.dc = c.dc, !.scope = c.scope,
                                !.pc = IF c.op = "save" THEN "makedirs" ELSE "load1"]
       IN /\ lock.used => CanAcquire(lock, p, FolderOf(pr))
          /\ lock' = Acquire(lock, p, FolderOf(pr))
          /\ procs' = [procs EXCEPT ![p] = pr]
  /\ UNCHANGED << disk, ConcRest >>

\* process p has written to its file and goes on at step next: the other
\* process, when it is in a save at the same scope, has been written over
Written(p, next) ==
  [q \in Procs |->
     IF q = p THEN [procs[p] EXCEPT !.pc = next]
     ELSE IF procs[q].op = "save" /\ procs[q].scope = procs[p].scope
          THEN [procs[q] EXCEPT !.again = TRUE]
          ELSE procs[q]]

\* os.makedirs(save_folder, exist_ok=True)
Makedirs(p) ==
  /\ procs[p].pc = "makedirs"
  /\ disk' = [disk EXCEPT !.dirs = @ \cup Prefixes(FolderOf(procs[p]))]
  /\ procs' = [procs EXCEPT ![p].pc = "open"]
  /\ UNCHANGED << lock, ConcRest >>

\* open(save_file, 'w')
OpenFile(p) ==
  /\ procs[p].pc = "open"
  /\ disk' = [disk EXCEPT !.meta = WriteFile(@, FolderOf(procs[p]), EmptyFile)]
  /\ procs' = Written(p, "dump")
  /\ UNCHANGED << lock, ConcRest >>

\* json.dump(to_json(_dataclass.empty()), f) and the end of the with statement
Dump(p) ==
  /\ procs[p].pc = "dump"
  /\ disk' = [disk EXCEPT !.meta = WriteFile(@, FolderOf(procs[p]), JsonFile(procs[p].dc))]
  /\ procs' = Written(p, "done")
  /\ UNCHANGED << lock, ConcRest >>

\* what load answers to the outcome of _load_dc
LoadAnswer(pr, r) ==
  LET a == IF r.err = "KeyError" THEN new_dataclass_from_id(pr.scope) ELSE r
  IN [pr EXCEPT !.pc = "done", !.err = a.err, !.ret = a.val]

\* the first self._load_dc(scope=scope, deep=deep) of load
LoadFirst(p) ==
  /\ procs[p].pc = "load1"
  /\ LET r == _load_dc(disk, procs[p].scope, FALSE)
     IN procs' = [procs EXCEPT ![p] = IF r.err = "ok" THEN [@ EXCEPT !.pc = "load2"]
                                      ELSE LoadAnswer(@, r)]
  /\ UNCHANGED << disk, lock, ConcRest >>

\* the second one, whose result load returns
LoadSecond(p) ==
  /\ procs[p].pc = "load2"
  /\ procs' = [procs EXCEPT ![p] = LoadAnswer(@, _load_dc(disk, procs[p].scope, FALSE))]
  /\ UNCHANGED << disk, lock, ConcRest >>

\* the call has returned or raised: the process gives the lock back
ConcReturn(p) ==
  /\ procs[p].pc = "done"
  /\ procs' = [procs EXCEPT ![p] = NoProc]
  /\ lock' = Release(lock, p)
  /\ UNCHANGED << disk, ConcRest >>

NextConc ==
  \E p \in Procs :
    \/ Begin(p)
    \/ Makedirs(p)
    \/ OpenFile(p)
    \/ Dump(p)
    \/ LoadFirst(p)
    \/ LoadSecond(p)
    \/ ConcReturn(p)

ConcSpec == InitConc /\ [][NextConc]_vars

\* -------------------------------------------------- Trainer.train_split
\* Trainer.__init__: self.callbacks is CallbackList(callbacks) when callbacks
\* are given, and the plain list [] when they are not (the default)
Trainer(callbacks_given, n_epochs) ==
  [callbacks |-> IF callbacks_given THEN "CallbackList" ELSE "list", n_epochs |-> n_epochs]

\* trial_split_scope.next_epoch(): the epoch counter of the scope, counted
\* from 1
next_epoch(epoch) == epoch + 1

InitTrain ==
  /\ split \in {[NoSplit EXCEPT !.callbacks = Trainer(g, n).callbacks,
                                !.n_epochs = Trainer(g, n).n_epochs,
                                !.val = v, !.pc = "start"] :
                  g \in BOOLEAN, n \in 0..MaxEpochs, v \in BOOLEAN}
  /\ RepoIdle
  /\ StoreIdle
  /\ LoopIdle
  /\ IsoIdle
  /\ LocIdle
  /\ CtxIdle
  /\ ConcIdle
  /\ JobIdle

TrainStep(next) ==
  /\ split' = next
  /\ UNCHANGED << repoVars, storeVars, loopVars, isoVars, locVars, ctxVars, concVars,
                  jobVars >>

\* train_split up to the for statement: with_n_epochs, the copy of the
\* pipeline, set_hyperparams
TrainSplitEnter ==
  /\ split.pc = "start"
  /\ TrainStep([split EXCEPT !.pc = "for"])

\* for _ in range(self.n_epochs): e = trial_split_scope.next_epoch(), or the
\* end of the range
ForEpoch ==
  /\ split.pc = "for"
  /\ TrainStep(IF split.it < split.n_epochs
               THEN [split EXCEPT !.it = @ + 1, !.epoch = next_epoch(@), !.pc = "fit"]
               ELSE [split EXCEPT !.pc = "returned"])

\* p.handle_fit on the training set
HandleFit ==
  /\ split.pc = "fit"
  /\ TrainStep([split EXCEPT !.fits = @ + 1, !.pc = "predict"])

\* p.handle_predict on the training set, and on the validation set if there
\* is one
HandlePredict ==
  /\ split.pc = "predict"
  /\ TrainStep([split EXCEPT !.predicts = @ + (IF split.val THEN 2 ELSE 1),
                             !.pc = "callback"])

\* if self.callbacks.call(scope, train, valid, e == self.n_epochs): break.
\* A list has no attribute call.
callbacks_call(sp, stop) ==
  IF sp.callbacks = "list" THEN [sp EXCEPT !.err = "AttributeError", !.pc = "raised"]
  ELSE [sp EXCEPT !.calls = Append(@, [epoch |-> sp.epoch,
                                       is_last_epoch |-> sp.epoch = sp.n_epochs,
                                       fits |-> sp.fits, predicts |-> sp.predicts,
                                       stop |-> stop]),
                  !.pc = IF stop THEN "returned" ELSE "for"]

\* the callback set is called and answers whether to stop early
CallbacksCall ==
  /\ split.pc = "callback"
  /\ \E stop \in BOOLEAN : TrainStep(callbacks_call(split, stop))

NextTrain == TrainSplitEnter \/ ForEpoch \/ HandleFit \/ HandlePredict \/ CallbacksCall

TrainSpec == InitTrain /\ [][NextTrain]_vars

\* ------------------------------------------- DefaultLoop.TODO_DELETE_run
(***************************************************************************)
(* The loop object is constructed by DefaultLoop.__init__, which assigns   *)
(* n_jobs; n_trial and hyperparams_repository are attributes that no       *)
(* constructor in auto_ml.py assigns, so they are there only when the      *)
(* caller has assigned them.  validation_splits is a name that is neither  *)
(* a parameter nor a global: evaluating it is a NameError.                 *)
(***************************************************************************)
RepoClasses ==
  {"unset", "InMemoryHyperparamsRepository", "VanillaHyperparamsRepository",
   "HyperparamsOnDiskRepository"}

\* isinstance(repo, InMemoryHyperparamsRepository): the class itself only
\* (VanillaHyperparamsRepository derives from HyperparamsRepository)
IsInMemoryHyperparamsRepository(repo) == repo = "InMemoryHyperparamsRepository"

\* an isinstance test that takes every repository kept in memory
IsKeptInMemory(repo) ==
  repo \in {"InMemoryHyperparamsRepository", "VanillaHyperparamsRepository"}

\* the call left by an exception
JobRaised(j, e) == [j EXCEPT !.pc = "done", !.err = e]

\* TODO_DELETE_run up to the end of the if statement: range(self.n_trial)
\* reads the attribute, the argument list of _attempt_trial reads
\* validation_splits; Pool(processes=n) starts its n workers in the
\* constructor, and raises ValueError when n < 1
TODO_DELETE_run(j) ==
  IF j.n_jobs = << >> \/ j.n_jobs = << 1 >>
  THEN IF j.n_trial = << >> THEN JobRaised(j, "AttributeError")
       ELSE JobRaised(j, "NameError")
  ELSE IF j.hyperparams_repository = "unset" THEN JobRaised(j, "AttributeError")
  ELSE IF IsInMemoryHyperparamsRepository(j.hyperparams_repository)
       THEN JobRaised(j, "ValueError")
  ELSE LET n_jobs == IF j.n_jobs[1] <= 0 - 1 THEN j.cpu_count + 1 + j.n_jobs[1]
                     ELSE j.n_jobs[1]
       IN IF n_jobs < 1 THEN JobRaised(j, "ValueError")
          ELSE [JobRaised(j, IF j.n_trial = << >> THEN "AttributeError" ELSE "NameError")
                  EXCEPT !.workers = n_jobs]

InitJobs ==
  /\ job \in {[NoJob EXCEPT !.n_jobs = n, !.n_trial = t, !.hyperparams_repository = r,
                            !.cpu_count = c, !.pc = "start"] :
                n \in {<< >>} \cup {<< k >> : k \in (0 - MaxJobs)..MaxJobs},
                t \in {<< >>} \cup {<< k >> : k \in 1..MaxJobs},
                r \in RepoClasses,
                c \in 1..MaxCpu}
  /\ RepoIdle
  /\ StoreIdle
  /\ LoopIdle
  /\ IsoIdle
  /\ LocIdle
  /\ CtxIdle
  /\ ConcIdle
  /\ TrainIdle

\* loop.TODO_DELETE_run(pipeline, dact, context)
RunJobs ==
  /\ job.pc = "start"
  /\ job' = TODO_DELETE_run(job)
  /\ UNCHANGED << repoVars, storeVars, loopVars, isoVars, locVars, ctxVars, concVars,
                  trainVars >>

NextJobs == RunJobs

JobsSpec == InitJobs /\ [][NextJobs]_vars

\* --------------------------------------------- properties of the repositories
\* the class of the node a location addresses, by its number of attributes
TypeAtDepth(scope) == dataclass_2_subloc_attr[loc_len(scope) + 1]

\* the last attribute of a location that is not empty
LastAttr(scope) == as_list(scope)[loc_len(scope)]

\* the node is of the class the location addresses and carries its last attribute
Matches(dc, scope) ==
  /\ dc.type = TypeAtDepth(scope)
  /\ loc_len(scope) > 0 => dc.id = LastAttr(scope)

Placeholders(dc) == \A i \in 1..Len(dc.sub) : dc.sub[i].v = NoneDC

\* the locations at which the repository holds something: a node of the tree,
\* a directory of the cache folder, a record of the cache folder
StoredNodes(r) == {s \in LoadScopes : dc_getitem(r, s).err = "ok"}
StoredDirs(d) == {s \in LoadScopes : get_folder_at_scope(s) \in d.dirs}
StoredRecords(d) == {s \in LoadScopes : get_folder_at_scope(s) \in DOMAIN d.meta}

\* load(s), save(n, s), load(s) with both flags left at deep=False, n of the
\* class and id that s addresses, and both calls returning
RoundTripDone ==
  /\ last.op = "reload"
  /\ ~last.deep /\ ~last.ldeep
  /\ Matches(last.dc, last.scope)
  /\ last.err = "ok" /\ last.lerr = "ok"

C3_ScopeSanity ==
  [][(/\ last'.op = "save"
      /\ last'.dc.id # None
      /\ loc_getitem(last'.scope, last'.dc.type) # None
      /\ loc_getitem(last'.scope, last'.dc.type) # last'.dc.id)
     => (last'.err # "ok" /\ root' = root /\ disk' = disk)]_vars

\* C9: load(s) of a gapless s that is not empty and at which nothing is
\* stored returns, without raising, a node of the class for the depth of s
\* whose id is the last attribute of s.
C9_LoadAbsent ==
  (/\ last.op = "load"
   /\ loc_len(last.scope) > 0
   /\ IF kind = "vanilla" THEN last.scope \notin StoredNodes(root)
      ELSE last.scope \notin StoredRecords(disk))
  => /\ last.lerr = "ok"
     /\ last.ret.type = TypeAtDepth(last.scope)
     /\ last.ret.id = LastAttr(last.scope)

\* C10: in the on-disk repository a load(s, deep) that returns, where a
\* record exists at s, returns the node of that record, whatever the
\* directories below s hold.
C10_LoadStored ==
  (/\ last.op = "load"
   /\ kind = "disk"
   /\ last.lerr = "ok"
   /\ last.scope \in StoredRecords(disk)
   /\ disk.meta[get_folder_at_scope(last.scope)].kind = "json")
  => OwnFields(last.ret) = disk.meta[get_folder_at_scope(last.scope)].rec

\* the record file at s exists and does not parse
Malformed(d, s) ==
  /\ s \in StoredRecords(d)
  /\ d.meta[get_folder_at_scope(s)].kind # "json"

\* t is s or a location below s
Below(s, t) ==
  /\ loc_len(t) >= loc_len(s)
  /\ Take(as_list(t), loc_len(s)) = as_list(s)

\* a deep load of s reads the record of every directory below s: none of them
\* lacks its record, so no read is answered by the not-found signal
AllRecordsBelow(d, s) ==
  \A t \in StoredDirs(d) : Below(s, t) => t \in StoredRecords(d)

\* C11: in the on-disk repository a load of s whose record file exists and
\* does not parse raises ValueError, never the not-found signal and never a
\* node; so does a deep load that reaches such a record below s: it raises
\* and returns no node.
C11_CorruptStoreFatal ==
  (last.op \in {"load", "reload"} /\ kind = "disk")
  => /\ Malformed(disk, last.scope) => last.lerr = "ValueError"
     /\ (/\ last.ldeep
         /\ AllRecordsBelow(disk, last.scope)
         /\ \E t \in StoredRecords(disk) : Below(last.scope, t) /\ Malformed(disk, t))
        => last.lerr \notin {"ok", "KeyError", "IndexError"}

\* a deep load of a location whose own record parses and below which a
\* record does not
C11_Witness ==
  /\ last.op = "load" /\ kind = "disk" /\ last.ldeep
  /\ ~Malformed(disk, last.scope)
  /\ last.scope \in StoredRecords(disk)
  /\ AllRecordsBelow(disk, last.scope)
  /\ \E t \in StoredRecords(disk) : Below(last.scope, t) /\ Malformed(disk, t)
  /\ last.lerr = "ValueError"

C14_DeepRoundTrip ==
  (/\ last.op = "reload"
   /\ last.deep /\ last.ldeep
   /\ Matches(last.dc, last.scope)
   /\ last.err = "ok" /\ last.lerr = "ok")
  => last.ret = last.dc

\* C15: save(n, s) of a node n that is not the root, at a gapless s that
\* addresses n's parent (as many attributes as n's class has classes above
\* it, the parent stored, and n's id an index the parent's list admits),
\* returns and leaves n stored in that parent under n's own id.
C15_SaveAtParentScope ==
  (/\ last.op = "save"
   /\ last.dc.type \notin {"RootDataclass", "NoneType"}
   /\ last.dc.id # None
   /\ loc_len(last.scope) = IndexIn(dataclass_2_id_attr, last.dc.type)
   /\ \A i \in 1..Len(last.dc.sub) : last.dc.sub[i].v # NoneDC
   /\ kind = "vanilla" =>
        LET parent == dc_getitem(root, last.scope)
        IN /\ parent.err = "ok"
           /\ DataclassHasListMixin(parent.val.type) => last.dc.id <= Len(parent.val.sub))
  => /\ last.err = "ok"
     /\ LET at == with_dc(last.scope, last.dc).val
        IN IF kind = "vanilla"
           THEN /\ dc_getitem(root, at).err = "ok"
                /\ OwnFields(dc_getitem(root, at).val) = OwnFields(last.dc)
           ELSE /\ at \in StoredRecords(disk)
                /\ disk.meta[get_folder_at_scope(at)] = JsonFile(last.dc)

\* ------------------------------------------------------ properties of store
\* a store on a node with a list sublocation of a child whose id is an index
ListStoreDone ==
  /\ call.op = "store"
  /\ DataclassHasListMixin(call.before.type)
  /\ call.dc.type # "NoneType"
  /\ IsInt(call.dc.id)

\* C7: on a list sublocation of length L, store of a child with id L appends
\* it (length L + 1); with id below L it replaces the entry at that index and
\* leaves the length and the other entries; with id above L it raises.
C7_ListStoreRule ==
  ListStoreDone =>
    LET L == Len(call.before.sub)
        id == call.dc.id
    IN /\ id = L => /\ call.err = "ok"
                    /\ node.sub = Append(call.before.sub, Entry(L, call.dc))
       /\ id < L => /\ call.err = "ok"
                    /\ Len(node.sub) = L
                    /\ node.sub[id + 1] = Entry(id, call.dc)
                    /\ \A j \in 1..L : j # id + 1 => node.sub[j] = call.before.sub[j]
       /\ id > L => /\ call.err # "ok"
                    /\ node = call.before

\* a store at an index in use that changed the entry
C7_Witness ==
  /\ ListStoreDone
  /\ call.dc.id < Len(call.before.sub)
  /\ call.err = "ok"
  /\ node # call.before

\* C8: when store raises, on a list or on an OrderedDict sublocation, the
\* sublocation of the node is what it was before the call.
C8_AtomicStore ==
  (call.op = "store" /\ call.err # "ok") => node.sub = call.before.sub

\* C24: a node whose sublocation is an OrderedDict (Root, Project,
\* TrialSplit) has, after any calls of store and set_sublocation, returned or
\* raised, only strings as keys and only nodes of its child class or None as
\* values
C24_MapKeyRule == DataclassHasOrderedDictMixin(node.type) => DictInvariant(node)

\* C27: a load of a list node from the on-disk repository returns, whatever
\* the number k of its child directories, a node whose keys are 0, 1, ...,
\* k-1 in increasing order (2 before 10)
C27_NumericChildOrder ==
  last.op = "load"
  => /\ last.lerr = "ok"
     /\ get_sublocation_keys(last.ret)
          = [i \in 1..Cardinality(ChildDirs(last.scope)) |-> i - 1]

\* two nodes are equal up to the order of their children
RECURSIVE SameUpToOrder(_, _)
SameUpToOrder(a, b) ==
  /\ OwnFields(a) = OwnFields(b)
  /\ Len(a.sub) = Len(b.sub)
  /\ \A i \in 1..Len(a.sub) : \E j \in 1..Len(b.sub) :
        a.sub[i].k = b.sub[j].k /\ SameUpToOrder(a.sub[i].v, b.sub[j].v)

\* C28: when the same saves are made on an in-memory repository and on an
\* on-disk one that both start empty, each save returns in both or raises
\* in both, and afterwards a deep load of any scope returns from both nodes
\* that are equal up to the order of their children
C28_SameContract ==
  /\ last.op = "save" => (last.err = "ok" <=> last.lerr = "ok")
  /\ last.op = "load" => /\ last.err = "ok" <=> last.lerr = "ok"
                         /\ last.err = "ok" => SameUpToOrder(last.ret, last.prior.val)

\* a list of coordinates extended by an id, by nothing when the id is None
Extended(l, id) == IF id = None THEN l ELSE Append(l, id)

\* push_attr and with_loc return another context, with the repository of the
\* one they were called on, and leave that one as it was; with_loc's context
\* is at the location given
PureSubScope ==
  (ccall.op \in {"push_attr", "with_loc"} /\ ccall.err = "ok")
  => /\ ccall.new
     /\ ctx.repo = ccall.before.repo
     /\ ccall.self = ccall.before
     /\ ccall.op = "with_loc" => ctx.loc = ccall.at

C25_IndexTwoOutcomes ==
  call.op = "getitem"
  => /\ call.err \in {"ok", "KeyError"}
     /\ loc_getitem(call.at, dataclass_2_subdataclass(node.type)) = None
        => call.err = "ok" /\ call.dc = node
     /\ (/\ HasKey(node, loc_getitem(call.at, dataclass_2_subdataclass(node.type)))
         /\ call.at[IndexIn(dataclass_2_subloc_attr, node.type) + 2] = None)
        => call.err # "KeyError"

\* C26: shallow() returns a node with the own fields and the keys of the
\* node it was called on and None in the place of every child; the node it
\* was called on is returned as it was
C26_ShallowCopy ==
  call.op = "shallow"
  => /\ call.err = "ok"
     /\ OwnFields(call.dc) = OwnFields(call.before)
     /\ get_sublocation_keys(call.dc) = get_sublocation_keys(call.before)
     /\ \A i \in 1..Len(call.dc.sub) : call.dc.sub[i].v = NoneDC

\* ------------------------------------------ properties of the controller loop
Over == pc \in {"returned", "raised"}

\* C4: with continue_loop_on_error, whatever trainings raise, run trains
\* n_trials trials, exactly those whose training raised end FAILED, and run
\* returns the round's id.
C4_RecoveryFromTrialFailure ==
  (cfg.path = "run" /\ cfg.continue_loop_on_error /\ Over)
  => /\ pc = "returned"
     /\ ret = round.id
     /\ Len(trials) = cfg.n_trials
     /\ \A j \in 1..Len(trials) :
          /\ trials[j].trained
          /\ trials[j].status = "FAILED" <=> trials[j].raised

\* C5: a trial is never committed twice, and once the loop is over, by a
\* return or by an error, every trial has a final status and was committed
\* once, wherever its failure happened.
C5_FinalStateWrittenOnce ==
  /\ \A j \in 1..Len(trials) : trials[j].writes <= 1
  /\ Over => \A j \in 1..Len(trials) :
               /\ trials[j].writes = 1
               /\ trials[j].status \in {"SUCCESS", "FAILED", "ABORTED"}

\* the error in flight was raised by the training of the last trial and is
\* one the configuration makes fatal
FatalTrainingError ==
  /\ pc = "raised"
  /\ Len(trials) > 0
  /\ Last(trials).raised
  /\ IF cfg.path = "run" THEN ~cfg.continue_loop_on_error ELSE exc = "Fatal"

\* C6: when a fatal error of the training has left the loop, the trial it
\* came from is ABORTED and committed, and no later trial was started.
C6_FatalAborted ==
  FatalTrainingError => /\ Last(trials).status = "ABORTED"
                        /\ Last(trials).writes = 1

\* the statuses a trial or a split ends in
Terminal == {"SUCCESS", "FAILED", "ABORTED"}

\* the values a status was given, in order: PLANNED, then RUNNING, then one
\* terminal status, and nothing after it
Lifecycle(h) ==
  /\ Len(h) \in 1..3
  /\ h[1] = "PLANNED"
  /\ Len(h) >= 2 => h[2] = "RUNNING"
  /\ Len(h) = 3 => h[3] \in Terminal

OneScopeOpen ==
  /\ Len(trials) <= cfg.n_trials
  /\ \A j \in 1..(Len(trials) - 1) :
       trials[j].status \in Terminal /\ trials[j].writes = 1

\* a training raised an error that the configuration makes fatal
FatalErrorOccurred ==
  ~cfg.continue_loop_on_error /\ \E j \in 1..Len(trials) : trials[j].raised

\* C18: run executes the trials one after the other, the scope of a trial
\* closed before the next one is opened, and when no fatal error occurs it
\* opens exactly n_trials trial scopes and returns the round's id
C18_SequentialTrials ==
  cfg.path = "run"
  => /\ OneScopeOpen
     /\ (Over /\ ~FatalErrorOccurred)
        => /\ pc = "returned"
           /\ Len(trials) = cfg.n_trials
           /\ ret = round.id

\* ---------------------------------- properties of the in-memory repository
\* C12: the in-memory repository is isolated from its callers: when the
\* caller changes a node it got from load or gave to save, the stored tree,
\* and so what every later load returns, stays as it was; the tree changes
\* only in a save
C12_Isolation == [][held'.op # "save" => root' = root]_vars

\* the caller has changed a node that is stored: the stored one differs
C12_Witness ==
  /\ held.op = "mutate"
  /\ dc_getitem(root, held.at).err = "ok"
  /\ dc_getitem(root, held.at).val.type = held.val.type
  /\ dc_getitem(root, held.at).val # held.val
  /\ TreeSize(root) > 2


\* ----------------------------------------------- properties of best-trial
\* the trials of the stored round 0, their scores and the metric's direction
StoredTrials == repo_load(RoundScope, TRUE).val.sub

ScoreOf(trial) == trial.sub[1].v.sub[1].v.own \div 2

HigherIsBetter == StoredTrials[1].v.sub[1].v.sub[1].v.own % 2 = 1

Better(a, b) == IF HigherIsBetter THEN a > b ELSE a < b

\* the position of the best trial: none is better, the earlier ones are worse
BestPos ==
  CHOOSE i \in 1..Len(StoredTrials) :
    /\ \A j \in 1..Len(StoredTrials) : ~Better(ScoreOf(StoredTrials[j].v), ScoreOf(StoredTrials[i].v))
    /\ \A j \in 1..(i - 1) : Better(ScoreOf(StoredTrials[i].v), ScoreOf(StoredTrials[j].v))

\* C16: get_best_hyperparams returns, of the trials of the round, the one
\* with the highest main-metric score when higher is better and the lowest
\* otherwise, the earliest of them on a tie
C16_BestTrialSelected ==
  last.op = "best"
  => /\ last.lerr = "ok"
     /\ last.ret.type = "TrialDataclass"
     /\ last.ret.id = BestPos - 1


\* ------------------------------------------------ properties of ScopedLocation
\* C19: with_id of an id appends it to the list of the location, so that two
\* with_id on the empty location give [x, y]; and with_id of the value that
\* pop just returned, on the location it was popped from, gives a location
\* equal to the one before the pop
C19_AppendPopRoundTrip ==
  (lcall.op = "with_id" /\ lcall.err = "ok" /\ lcall.arg # None)
  => /\ as_list(loc) = Append(as_list(lcall.before), lcall.arg)
     /\ (lcall.prev.op = "pop" /\ lcall.prev.ret # None /\ lcall.arg = lcall.prev.ret)
        => loc = lcall.prev.before

\* a location of two coordinates or more was popped and the value put back
C19_Witness ==
  /\ lcall.op = "with_id"
  /\ lcall.err = "ok"
  /\ lcall.prev.op = "pop"
  /\ lcall.arg = lcall.prev.ret
  /\ lcall.arg # None
  /\ loc_len(loc) >= 2
  /\ loc[1] # loc[2]

\* C20: a location built from the empty one by with_id, with_dc, pop,
\* popped, copy and slices has no gap, and its length is the number of its
\* coordinates that are set
C20_PrefixInvariant ==
  /\ \A k \in 2..NumAttrs : loc[k] # None => loc[k - 1] # None
  /\ loc_len(loc) = Cardinality({k \in 1..NumAttrs : loc[k] # None})

\* a location of three coordinates that with_dc completed
C20_Witness ==
  /\ lcall.op = "with_dc"
  /\ lcall.err = "ok"
  /\ loc_len(loc) = 3
  /\ loc_len(lcall.before) = 2


\* C21: with_dc of a node that is not the root returns the location extended
\* by the node's id exactly when the node's class is the one after the
\* location's depth in the order Project, Client, Round, Trial, TrialSplit,
\* MetricResults; otherwise the call raises and the location is as it was
C21_WithDcTypeOrder ==
  (lcall.op = "with_dc" /\ lcall.T # "RootDataclass")
  => /\ lcall.err = "ok" <=> IndexIn(dataclass_2_id_attr, lcall.T) = loc_len(lcall.before)
     /\ (lcall.err = "ok" /\ lcall.arg # None)
        => as_list(loc) = Append(as_list(lcall.before), lcall.arg)
     /\ lcall.err # "ok" => loc = lcall.before /\ lcall.self = lcall.before

\* with_dc extended a location of two coordinates by the id of a round
C21_Witness ==
  /\ lcall.op = "with_dc"
  /\ lcall.T = "RoundDataclass"
  /\ lcall.err = "ok"
  /\ lcall.arg = 0
  /\ loc_len(lcall.before) = 2
  /\ loc_len(loc) = 3

\* the location with its last set coordinate reset
LastRemoved(l) == [k \in 1..NumAttrs |-> IF k = loc_len(l) THEN None ELSE l[k]]

\* C22: with_id, with_dc, popped, copy and a slice leave the receiver as it
\* was and return another instance; pop changes the receiver, resetting its
\* last set coordinate and nothing else, and returns that coordinate
C22_ValueSemantics ==
  /\ lcall.op \in {"with_id", "with_dc", "popped", "copy", "slice"}
     => /\ lcall.self = lcall.before
        /\ lcall.err = "ok" => lcall.new
  /\ lcall.op = "pop"
     => /\ lcall.self = LastRemoved(lcall.before)
        /\ loc = lcall.self
        /\ loc_len(lcall.before) > 0 => lcall.ret = lcall.before[loc_len(lcall.before)]

\* with_dc returned a longer location and the receiver kept its two
\* coordinates
C22_Witness ==
  /\ lcall.op = "with_dc"
  /\ lcall.err = "ok"
  /\ lcall.new
  /\ loc_len(lcall.self) = 2
  /\ loc_len(loc) = 3

\* C23: loc[:T] keeps the coordinates of loc up to and including the one of
\* T and no other, so that it is loc itself when loc has no coordinate
\* beyond T's, and loc[:Root] is the empty location
C23_SliceByType ==
  (lcall.op = "slice" /\ lcall.T # "int")
  => LET n == IF lcall.T = "RootDataclass" THEN 0
              ELSE IndexIn(dataclass_2_id_attr, lcall.T) + 1
     IN /\ loc = [k \in 1..NumAttrs |-> IF k <= n THEN lcall.before[k] ELSE None]
        /\ loc_len(lcall.before) <= n => loc = lcall.before
        /\ lcall.T = "RootDataclass" => loc = ScopedLocation(<< >>)

\* a location of four coordinates sliced at the client
C23_Witness ==
  /\ lcall.op = "slice"
  /\ lcall.T = "ClientDataclass"
  /\ loc_len(lcall.before) = 4
  /\ loc_len(loc) = 2

\* C30: the log handle that the context of a trial's scope attached is
\* freed when the scope is left, by an error as well, and none is attached
\* any more once the loop is over
C30_HandlesReleased ==
  /\ \A i \in 1..Len(trials) : trials[i].status \in Terminal => ~trials[i].fh
  /\ Over => \A i \in 1..Len(trials) : ~trials[i].fh

\* C40: add_scoped_logger_file_handler raises on a context that has a
\* handler, which keeps it, and no file is opened; on a context without one
\* it returns, one file is opened and the context has a handler;
\* free_scoped_logger_handler_file raises on a context without a handler and
\* otherwise returns and leaves the context without one
C40_OneHandler ==
  [][/\ (ccall'.op = "add" /\ ctx.fh) => ccall'.err = "ValueError" /\ ctx' = ctx
     /\ (ccall'.op = "add" /\ ~ctx.fh)
        => ccall'.err = "ok" /\ ctx' = [ctx EXCEPT !.fh = TRUE, !.opened = @ + 1]
     /\ (ccall'.op = "free" /\ ~ctx.fh) => ccall'.err = "ValueError" /\ ctx' = ctx
     /\ (ccall'.op = "free" /\ ctx.fh)
        => ccall'.err = "ok" /\ ctx' = [ctx EXCEPT !.fh = FALSE]]_vars

\* add raised on a context of the on-disk repository that holds a handler
C40_Witness ==
  /\ ccall.op = "add"
  /\ ccall.err = "ValueError"
  /\ ccall.before.fh
  /\ ctx.fh
  /\ ctx.opened = 2
  /\ loc_len(ctx.loc) > 0

\* every node of the tree below dc has the id under which its parent holds
\* it (its key in a map, its index in a list); an empty slot is no node
RECURSIVE AddressConsistent(_)
AddressConsistent(dc) ==
  \A i \in 1..Len(dc.sub) :
    LET e == dc.sub[i]
    IN e.v.type = "NoneType" \/ (e.v.id = e.k /\ AddressConsistent(e.v))

\* C37: in the in-memory repository every stored node has the id under which
\* its parent holds it, so a load at a stored scope returns a node whose id is
\* the last coordinate of the scope
C37_AddressConsistent ==
  kind = "vanilla" =>
    /\ AddressConsistent(root)
    /\ (last.op = "load" /\ last.lerr = "ok" /\ last.scope # ScopedLocation(<< >>)
        /\ dc_getitem(root, last.scope).err = "ok")
       => last.ret.id = Last(as_list(last.scope))

\* the node under which save(dc, scope) stores dc: the one at the coordinates
\* of scope above the level of dc
ParentOf(r, dc, scope) ==
  dc_getitem(r, loc_slice(scope, dataclass_2_subloc_attr[IndexIn(dataclass_2_subloc_attr, dc.type)]))

\* the parent of dc at scope is a stored node of the class above dc's
ParentStored(r, dc, scope) ==
  /\ loc_len(scope) >= IndexIn(dataclass_2_subloc_attr, dc.type) - 1
  /\ ParentOf(r, dc, scope).err = "ok"
  /\ dataclass_2_subdataclass(ParentOf(r, dc, scope).val.type) = dc.type

\* dc has a list index beyond the length of its stored parent
BeyondEnd(r, dc, scope) ==
  /\ ParentStored(r, dc, scope)
  /\ ~DataclassHasOrderedDictMixin(ParentOf(r, dc, scope).val.type)
  /\ IsInt(dc.id)
  /\ IntOf(dc.id) > Len(ParentOf(r, dc, scope).val.sub)

\* C38: in the in-memory repository a save of a node whose parent is not
\* stored, or whose list index is greater than the length of its parent,
\* raises and leaves the tree as it was.
C38_FailedSaveNoEffect ==
  [][(/\ kind = "vanilla"
      /\ last'.op = "save"
      /\ last'.dc.type # "RootDataclass"
      /\ ~ParentStored(root, last'.dc, last'.scope) \/ BeyondEnd(root, last'.dc, last'.scope))
     => last'.err # "ok" /\ root' = root]_vars

\* a round whose parent client is not stored was saved, and a trial with an
\* index beyond the end of its round's list
C38_Witness ==
  /\ kind = "vanilla"
  /\ last.op = "save"
  /\ last.err = "ValueError"
  /\ last.dc.type = "TrialDataclass"
  /\ Matches(last.dc, last.scope)
  /\ BeyondEnd(root, last.dc, last.scope)

\* C39: constructing an on-disk repository over a cache folder that holds
\* saved data changes none of it: every deep load answers after the
\* construction what it answered before.
C39_ConstructKeepsData ==
  [][last'.op = "init"
     => \A s \in LoadScopes : disk_load(disk', s, TRUE) = disk_load(disk, s, TRUE)]_vars

\* C35: the folder of a location has one segment per set attribute, the
\* delimiter followed by str(attribute); the folder of loc.with_id(x) is the
\* folder of loc with the one segment of x appended; metadata.json and
\* log.txt are files of that folder.
C35_FolderLayout ==
  lcall.op = "paths" =>
    LET folder == lcall.path.folder
        set == {k \in 1..NumAttrs : loc[k] # None}
    IN /\ Len(folder) = Cardinality(set)
       /\ \A i \in 1..Len(folder) :
            /\ folder[i][1] = ON_DISK_DELIM
            /\ SubSeq(folder[i], 2, Len(folder[i])) = Str(as_list(loc)[i])
       /\ \A x \in LocIds \cup {MaxKids} :
            (x # None /\ with_id(loc, x).err = "ok")
            => get_folder_at_scope(with_id(loc, x).val)
                 = Append(folder, << ON_DISK_DELIM >> \o Str(x))
       /\ lcall.path.record = [dir |-> folder, name |-> "metadata.json"]
       /\ lcall.path.log = [dir |-> folder, name |-> "log.txt"]

\* the paths of a location of three attributes, an int among them
C35_Witness ==
  /\ lcall.op = "paths"
  /\ Len(lcall.path.folder) = 3
  /\ \E i \in 1..3 : lcall.path.folder[i] = << ON_DISK_DELIM, CHAR_ZERO >>
  /\ \E i \in 1..3 : lcall.path.folder[i] = << ON_DISK_DELIM, DEFAULT_PROJECT >>

C33_InMemoryRejected ==
  (/\ job.pc = "done"
   /\ job.n_jobs # << >> /\ job.n_jobs # << 1 >>
   /\ IsKeptInMemory(job.hyperparams_repository))
  => (job.err # "ok" /\ job.workers = 0 /\ job.attempts = 0)

\* C36: train_split runs the epochs in order and calls the callback set once
\* in each, after the fit and the predict of that epoch; it begins at most
\* n_epochs epochs, begins none after a call that answered stop, passes
\* is_last_epoch = True only in epoch n_epochs, and returns.
C36_EpochLoop ==
  /\ split.it <= split.n_epochs
  /\ split.pc \in {"for", "returned", "raised"} => Len(split.calls) = split.it
  /\ split.pc \notin {"none", "start", "for", "fit", "predict", "callback"}
       => split.pc = "returned" /\ split.err = "ok"
  /\ \A i \in 1..Len(split.calls) :
       /\ split.calls[i].epoch = i
       /\ split.calls[i].fits = i
       /\ split.calls[i].predicts = i * (IF split.val THEN 2 ELSE 1)
       /\ split.calls[i].is_last_epoch => i = split.n_epochs
       /\ split.calls[i].stop => (i = Len(split.calls) /\ split.pc = "returned")

\* the loop of a trainer that was given its callbacks
C36_WithCallbackList == split.callbacks = "CallbackList" => C36_EpochLoop

====
